---- MODULE Spec2Model ----
(***************************************************************************)
(* Verification model of the device runtime in                             *)
(* src/src/raspi_firmware/code.py: ConfigManager (settings parser and      *)
(* serializer, save), NetworkManager, Sensor, WebServer.poll and its       *)
(* handlers, the startup sequence and the main loop.                       *)
(*                                                                         *)
(* The module holds one specification per subsystem; each leaves the       *)
(* variables of the other subsystems at their initial values.              *)
(*   SpecToml    the built-in settings parser / serializer                 *)
(*   SpecNet     NetworkManager under arbitrary calls and link loss        *)
(*   SpecBoot    the startup sequence (network, NTP, MQTT, web server)     *)
(*   SpecSensor  Sensor.read_data against a clock                          *)
(*   SpecLoop    the main loop, every per-tick operation free to fail      *)
(*   SpecHttp    WebServer.poll, its handlers and the settings file        *)
(***************************************************************************)
EXTENDS Integers, Sequences, FiniteSets, TLC

VARIABLES
    tomlPc,        \* "input" | "done": position of the serializer/parser run
    tomlDoc,       \* the settings document handed to _dump_toml
    tomlFirst,     \* serialize(d)
    tomlParsed,    \* parse(serialize(d))
    tomlSecond,    \* serialize(parse(serialize(d)))
    \* ---- build: which optional modules the firmware image imports
    wifiPresent,       \* wifi is not None
    socketpoolPresent, \* "import socketpool" succeeds
    \* ---- link layer and NetworkManager
    radioAddr,     \* wifi.radio.ipv4_address is not None
    netLastError,  \* NetworkManager._last_error: 0 is None, k the failure of attempt k
    netSocketPool, \* NetworkManager._socket_pool: 0 is None, else the instance
    poolsMade,     \* SocketPool instances constructed so far
    netCall,       \* the last NetworkManager call: its inputs and what it returned
    \* ---- startup sequence
    bootPc,        \* "wifi" | "sensor" | "mqtt" | "web" | "interval" | "loop": the next
                   \* startup step; "crashed" once an exception left the module
    ssidSet,       \* settings.get("wifi_ssid") is non-empty
    brokerSet,     \* settings.get("broker_address") is non-empty
    ntpPresent,    \* adafruit_ntp is not None and rtc is not None
    mqttLibPresent,\* MQTT is not None
    netObj,        \* net is not None
    mqttObj,       \* mqtt is not None
    webObj,        \* web is not None
    mqttPool,      \* MqttClient._socket_pool: 0 is None
    webPool,       \* WebServer._socket_pool: 0 is None
    factoryLog,    \* every factory constructed for or handed to a component
    \* ---- Sensor
    now,           \* time.monotonic(), in seconds
    sensorReady,   \* Sensor._sensor is not None
    sensorLastRead,  \* Sensor._last_read_timestamp
    sensorLastError, \* Sensor._last_error: 0 is None, k the failure of attempt k
    prevReadAt,    \* when the successful read before the last one was taken (-1: none)
    lastReadAt,    \* when the last successful read was taken (-1: none)
    sensorCall,    \* the last read_data() call: what it saw and what it returned
    \* ---- main loop
    loopPc,        \* the next step of the tick, "reset" after a device reset
    loopMqtt,      \* mqtt is not None
    loopWeb,       \* web is not None
    topicSet,      \* settings.get("telemetry_topic") is non-empty
    quantityTopics, \* the quantities with an explicit topic: temperature_topic, humidity_topic
    tickParity,    \* the tick number modulo 2
    tickLog,       \* the calls made so far in this tick, <<operation, outcome>> each
    \* ---- settings file and WebServer
    microPresent,  \* microcontroller is not None
    fsReadOnly,    \* the filesystem is mounted read-only for the firmware
    file,          \* the settings file: [kind, doc]
    fileBefore,    \* the settings file when the current connection was accepted
    httpPc,        \* the position of poll(), "reset" / "crashed" once the device went down
    req,           \* the request of the accepted connection
    resp,          \* the response _handle_request returned (kind "none": none)
    saveDoc,       \* the merged settings a handler is about to write
    pendingReset,  \* WebServer._pending_reset
    webLastError,  \* WebServer._last_error is set
    connLog,       \* what happened on the current connection, in order
    \* ---- the configuration API on the settings file's text
    apiPc,         \* position in the sequence GET, PUT, GET, PUT, GET
    apiFile,       \* the text of the settings file
    apiUpd,        \* the update the client submits, <<key, value>> pairs
    apiGets,       \* the documents the GETs returned so far
    apiCodes,      \* the status codes the PUTs returned so far
    \* ---- MqttClient
    mqCfg,         \* which topic keys the configuration sets
    mqClient,      \* MqttClient._mqtt_client is not None
    mqWill,        \* the last will registered on the client, NoWill if none
    mqSession,     \* the session with the broker is open
    mqOpens,       \* for each session-open call made: the will registered then
    mqStatus,      \* MqttClient._status
    mqLastError,   \* MqttClient._last_error: "none" or the call that failed
    mqPublished,   \* the status of the latest retained publish that went through
    mqCall,        \* the latest MqttClient call, its result and what it emitted
    \* ---- WebServer._http_response
    rspPc,         \* "input" | "done"
    rspIn,         \* the arguments: status code, body, content type, extra headers
    rspOut,        \* the response: status line, header lines, body bytes
    \* ---- the link, as seen from outside NetworkManager
    poolStale,     \* the cached factory was constructed under a connection since lost
    \* ---- startup: loading the settings file
    tomlReaderPresent, \* _toml_reader is not None (tomllib or tomli imports)
    cfgFile,       \* /settings.toml: whether it exists, and its text
    loadPc,        \* "start" | "loaded"
    loadCall,      \* what cfg.load_settings() did: its result or the exception raised
    bootSettings,  \* the module-level settings dict after step 1 of startup
    \* ---- WebServer._api_get_status
    stWeb,         \* WebServer.network_manager / .mqtt_client: which are not None
    stResp,        \* the latest /api/status response: its code and JSON members
    \* ---- WebServer._handle_post_request on the text of body and file
    formPc,        \* "input" | "done"
    formBody,      \* the request body, as _handle_request cut it out
    formBefore,    \* /settings.toml when the request came in
    formFile,      \* /settings.toml now
    formOut,       \* what the handler did: status code or "raise", decoded updates
    \* ---- startup steps 4 and 7
    bootCfg,       \* what the settings and the image give the sensor and the interval
    bootSensor,    \* "none" | "ready" | "disabled": the Sensor object startup built
    \* ---- WebServer.poll on one connection, receive by receive
    pollPc,        \* "accept" | "headers" | "parse" | "body" | "dispatch" | "send" |
                   \* "close" | "returned" | "reset"
    pollReq,       \* what the peer sends: method and the Content-Length it declares
    pollHeaderEnd, \* header_end != -1
    pollToRead,    \* to_read
    pollTries,     \* iterations of "for _ in range(50)" made
    pollRecvs,     \* client.recv calls made on this connection
    pollAsk,       \* the latest body recv: bytes asked for, and to_read at that time
    pollStages,    \* the stages the connection went through, in order
    pollCloses,    \* client.close() calls made
    \* ---- WebServer.poll and the handlers on a request whose body may be cut short
    cutPc,         \* "headers" | "body" | "dispatch" | "done" | "reset"
    cutReq,        \* what the peer means to send: method and the whole body
    cutHeaderEnd,  \* header_end != -1
    cutGot,        \* how many characters of the body are in buf
    cutBefore,     \* /settings.toml when the connection was accepted
    cutFile,       \* /settings.toml now
    cutOut,        \* what the handler did: status code or "raise", file written or not
    \* ---- the form of GET / submitted back through POST /
    rtPc,          \* "get" | "post" | "done"
    rtBefore,      \* /settings.toml before the GET
    rtFile,        \* /settings.toml now
    rtBody,        \* the body the browser builds from the rendered form
    rtOut          \* what _handle_post_request did with it

tomlVars == <<tomlPc, tomlDoc, tomlFirst, tomlParsed, tomlSecond>>

buildVars == <<wifiPresent, socketpoolPresent>>

netVars == <<radioAddr, netLastError, netSocketPool, poolsMade, netCall>>

bootVars == <<bootPc, ssidSet, brokerSet, ntpPresent, mqttLibPresent, netObj, mqttObj,
              webObj, mqttPool, webPool, factoryLog>>

sensorVars == <<now, sensorReady, sensorLastRead, sensorLastError, prevReadAt, lastReadAt,
                sensorCall>>

loopVars == <<loopPc, loopMqtt, loopWeb, topicSet, quantityTopics, tickParity, tickLog>>

httpVars == <<microPresent, fsReadOnly, file, fileBefore, httpPc, req, resp, saveDoc,
              pendingReset, webLastError, connLog>>

apiVars == <<apiPc, apiFile, apiUpd, apiGets, apiCodes>>

mqttVars == <<mqCfg, mqClient, mqWill, mqSession, mqOpens, mqStatus, mqLastError,
              mqPublished, mqCall>>

rspVars == <<rspPc, rspIn, rspOut>>

linkVars == <<poolStale>>

loadVars == <<tomlReaderPresent, cfgFile, loadPc, loadCall, bootSettings>>

statusVars == <<stWeb, stResp>>

formVars == <<formPc, formBody, formBefore, formFile, formOut>>

startVars == <<bootCfg, bootSensor>>

pollVars == <<pollPc, pollReq, pollHeaderEnd, pollToRead, pollTries, pollRecvs, pollAsk,
              pollStages, pollCloses>>

cutVars == <<cutPc, cutReq, cutHeaderEnd, cutGot, cutBefore, cutFile, cutOut>>

roundVars == <<rtPc, rtBefore, rtFile, rtBody, rtOut>>

vars == <<tomlVars, buildVars, netVars, bootVars, sensorVars, loopVars, httpVars, apiVars,
          mqttVars, rspVars, linkVars, loadVars, statusVars, formVars, startVars, pollVars,
          cutVars, roundVars>>

(***************************************************************************)
(* Text: a Python str is a sequence of one-character strings.              *)
(***************************************************************************)
QUOTE == "\""
APOS == "'"
BACKSLASH == "\\"
NEWLINE == "\n"

Digits == <<"0", "1", "2", "3", "4", "5", "6", "7", "8", "9">>

DigitSet == {Digits[i] : i \in 1..10}

DigitVal(c) == (CHOOSE i \in 1..10 : Digits[i] = c) - 1

Whitespace == {" ", "\t", "\n", "\r"}

\* str.lower() on the letters the model's texts use
Upper == <<"T", "R", "U", "E", "F", "A", "L", "S">>

LowerOf == <<"t", "r", "u", "e", "f", "a", "l", "s">>

LowerChar(c) ==
    IF \E i \in 1..Len(Upper) : Upper[i] = c
    THEN LowerOf[CHOOSE i \in 1..Len(Upper) : Upper[i] = c]
    ELSE c

Lower(s) == [i \in 1..Len(s) |-> LowerChar(s[i])]

\* str.strip(): whitespace removed at both ends
RECURSIVE LStrip(_)
LStrip(s) ==
    IF s # <<>> /\ Head(s) \in Whitespace THEN LStrip(Tail(s)) ELSE s

RECURSIVE RStrip(_)
RStrip(s) ==
    IF s # <<>> /\ s[Len(s)] \in Whitespace
    THEN RStrip(SubSeq(s, 1, Len(s) - 1))
    ELSE s

Strip(s) == RStrip(LStrip(s))

Contains(s, c) == \E i \in 1..Len(s) : s[i] = c

IndexOf(s, c) == CHOOSE i \in 1..Len(s) : s[i] = c /\ \A j \in 1..(i - 1) : s[j] # c

\* str.split(sep): the pieces between the occurrences of the character sep
RECURSIVE SplitOn(_, _)
SplitOn(s, sep) ==
    IF Contains(s, sep)
    THEN <<SubSeq(s, 1, IndexOf(s, sep) - 1)>>
         \o SplitOn(SubSeq(s, IndexOf(s, sep) + 1, Len(s)), sep)
    ELSE <<s>>

\* str.splitlines(): like split on the line break, without a trailing empty piece
SplitLines(s) ==
    LET pieces == SplitOn(s, NEWLINE)
    IN IF pieces[Len(pieces)] = <<>>
       THEN SubSeq(pieces, 1, Len(pieces) - 1)
       ELSE pieces

\* str(n) for a natural number, and for an integer
RECURSIVE NatStr(_)
NatStr(n) ==
    IF n < 10 THEN <<Digits[n + 1]>>
    ELSE NatStr(n \div 10) \o <<Digits[(n % 10) + 1]>>

IntStr(n) == IF n < 0 THEN <<"-">> \o NatStr(-n) ELSE NatStr(n)

AllDigits(s) == s # <<>> /\ \A i \in 1..Len(s) : s[i] \in DigitSet

RECURSIVE NatVal(_)
NatVal(s) ==
    IF s = <<>> THEN 0
    ELSE 10 * NatVal(SubSeq(s, 1, Len(s) - 1)) + DigitVal(s[Len(s)])

Unsigned(s) == IF s # <<>> /\ Head(s) \in {"-", "+"} THEN Tail(s) ELSE s

Sign(s) == IF s # <<>> /\ Head(s) = "-" THEN -1 ELSE 1

\* int(token) succeeds: an optional sign and decimal digits
IsIntToken(s) == AllDigits(Unsigned(s))

IntVal(s) == Sign(s) * NatVal(Unsigned(s))

Pow10(k) == IF k = 0 THEN 1 ELSE IF k = 1 THEN 10 ELSE IF k = 2 THEN 100 ELSE 1000

\* float(token) succeeds on a token with a decimal point: an optional sign,
\* digits, the point, digits (at least one digit overall)
IsFloatToken(s) ==
    LET u == Unsigned(s)
    IN /\ Contains(u, ".")
       /\ LET p == IndexOf(u, ".")
              ip == SubSeq(u, 1, p - 1)
              fp == SubSeq(u, p + 1, Len(u))
          IN /\ (ip = <<>> \/ AllDigits(ip))
             /\ (fp = <<>> \/ AllDigits(fp))
             /\ (ip # <<>> \/ fp # <<>>)
             /\ Len(fp) <= 3

(***************************************************************************)
(* Settings values: string, integer, float, boolean.  A float is           *)
(* n * 10^(-e); a boolean is n = 1 or 0.                                   *)
(***************************************************************************)
StrV(s) == [t |-> "str", s |-> s, n |-> 0, e |-> 0]

IntV(n) == [t |-> "int", s |-> <<>>, n |-> n, e |-> 0]

BoolV(b) == [t |-> "bool", s |-> <<>>, n |-> IF b THEN 1 ELSE 0, e |-> 0]

FloatV(n, e) == [t |-> "float", s |-> <<>>, n |-> n, e |-> e]

\* the float a decimal token denotes, with trailing zeros of the fraction dropped
RECURSIVE NormFloat(_, _)
NormFloat(n, e) ==
    IF e > 1 /\ n % 10 = 0 THEN NormFloat(n \div 10, e - 1) ELSE FloatV(n, e)

FloatVal(s) ==
    LET u == Unsigned(s)
        p == IndexOf(u, ".")
        ip == SubSeq(u, 1, p - 1)
        fp == IF p = Len(u) THEN <<"0">> ELSE SubSeq(u, p + 1, Len(u))
    IN NormFloat(Sign(s) * (NatVal(ip) * Pow10(Len(fp)) + NatVal(fp)), Len(fp))

Abs(n) == IF n < 0 THEN -n ELSE n

\* zero-padded decimal digits of n, k digits wide
RECURSIVE PadNat(_, _)
PadNat(n, k) ==
    IF k = 0 THEN <<>> ELSE PadNat(n \div 10, k - 1) \o <<Digits[(n % 10) + 1]>>

\* str(x) of a float: fixed notation, or the exponent form Python chooses for a
\* decimal exponent below -4 (1e-07)
FloatStr(n, e) ==
    LET sgn == IF n < 0 THEN <<"-">> ELSE <<>>
        a == Abs(n)
    IN IF e > 4
       THEN sgn \o NatStr(a) \o <<"e", "-">> \o PadNat(e, 2)
       ELSE sgn \o NatStr(a \div Pow10(e)) \o <<".">> \o PadNat(a % Pow10(e), e)

(***************************************************************************)
(* ConfigManager: the built-in (CircuitPython) parser and serializer.      *)
(* A document is an ordered mapping: a sequence of <<key, value>> pairs    *)
(* with distinct keys.                                                     *)
(***************************************************************************)
\* _format_value, the str branch: value.replace('"', '\\"')
RECURSIVE EscapeQuotes(_)
EscapeQuotes(s) ==
    IF s = <<>> THEN <<>>
    ELSE (IF Head(s) = QUOTE THEN <<BACKSLASH, QUOTE>> ELSE <<Head(s)>>)
         \o EscapeQuotes(Tail(s))

format_value(v) ==
    CASE v.t = "str" -> <<QUOTE>> \o EscapeQuotes(v.s) \o <<QUOTE>>
      [] v.t = "bool" -> IF v.n = 1 THEN <<"t", "r", "u", "e">>
                         ELSE <<"f", "a", "l", "s", "e">>
      [] v.t = "int" -> IntStr(v.n)
      [] v.t = "float" -> FloatStr(v.n, v.e)

\* "\n".join(lines + [""]) over the lines "key = value"
RECURSIVE dump_toml(_)
dump_toml(settings) ==
    IF settings = <<>> THEN <<>>
    ELSE Head(settings)[1] \o <<" ", "=", " ">> \o format_value(Head(settings)[2])
         \o <<NEWLINE>> \o dump_toml(Tail(settings))

convert_value(value) ==
    IF value # <<>> /\ Head(value) = QUOTE /\ value[Len(value)] = QUOTE
    THEN StrV(SubSeq(value, 2, Len(value) - 1))
    ELSE IF value # <<>> /\ Head(value) = APOS /\ value[Len(value)] = APOS
    THEN StrV(SubSeq(value, 2, Len(value) - 1))
    ELSE IF Lower(value) \in {<<"t", "r", "u", "e">>, <<"f", "a", "l", "s", "e">>}
    THEN BoolV(Lower(value) = <<"t", "r", "u", "e">>)
    ELSE IF Contains(value, ".")
    THEN (IF IsFloatToken(value) THEN FloatVal(value) ELSE StrV(value))
    ELSE IF IsIntToken(value) THEN IntV(IntVal(value))
    ELSE StrV(value)

\* result[key] = value on an ordered mapping: replace in place, else append
DictSet(d, key, value) ==
    IF \E i \in 1..Len(d) : d[i][1] = key
    THEN [i \in 1..Len(d) |-> IF d[i][1] = key THEN <<key, value>> ELSE d[i]]
    ELSE Append(d, <<key, value>>)

RECURSIVE ParseLines(_, _)
ParseLines(lines, result) ==
    IF lines = <<>> THEN result
    ELSE LET line == Strip(Head(lines))
             eq == IndexOf(line, "=")
         IN IF line = <<>> \/ Head(line) = "#" \/ ~Contains(line, "=")
            THEN ParseLines(Tail(lines), result)
            ELSE ParseLines(Tail(lines),
                     DictSet(result,
                             Strip(SubSeq(line, 1, eq - 1)),
                             convert_value(Strip(SubSeq(line, eq + 1, Len(line))))))

parse_minimal_toml(content) == ParseLines(SplitLines(content), <<>>)

(***************************************************************************)
(* NetworkManager.  The link layer (wifi.radio) is the environment: a      *)
(* connect attempt succeeds or raises, and an established link may drop.   *)
(***************************************************************************)
max_retries == 5

MaxPools == 3

NoCall == [op |-> "none", ret |-> "none", attempts |-> 0, connectedBefore |-> FALSE,
           outcomes |-> [i \in 1..max_retries |-> FALSE], pool |-> 0]

\* NetworkManager.is_connected on link state addr
is_connected(addr) == wifiPresent /\ addr

\* connect() whose success branch forgets "self._last_error = None"
RECURSIVE ConnectLoopKeepsError(_, _, _)
ConnectLoopKeepsError(i, outcomes, st) ==
    IF i > max_retries
    THEN [addr |-> st[1], last_error |-> st[2], pool |-> st[3],
          ret |-> "false", attempts |-> max_retries]
    ELSE IF outcomes[i]
    THEN [addr |-> TRUE, last_error |-> st[2], pool |-> 0, ret |-> "true", attempts |-> i]
    ELSE ConnectLoopKeepsError(i + 1, outcomes, <<st[1], i, st[3]>>)

\* the for-loop of connect() from attempt i on; outcomes[i] tells whether
\* wifi.radio.connect succeeds at attempt i.  st is <<addr, last_error, pool>>.
RECURSIVE ConnectLoop(_, _, _)
ConnectLoop(i, outcomes, st) ==
    IF i > max_retries
    THEN [addr |-> st[1], last_error |-> st[2], pool |-> st[3],
          ret |-> "false", attempts |-> max_retries]
    ELSE IF outcomes[i]
    THEN [addr |-> TRUE, last_error |-> 0, pool |-> 0, ret |-> "true", attempts |-> i]
    ELSE ConnectLoop(i + 1, outcomes, <<st[1], i, st[3]>>)

\* NetworkManager.connect()
connect(outcomes, st) ==
    IF ~wifiPresent
    THEN [addr |-> st[1], last_error |-> st[2], pool |-> st[3],
          ret |-> "raise", attempts |-> 0]
    ELSE IF is_connected(st[1])
    THEN [addr |-> st[1], last_error |-> st[2], pool |-> st[3],
          ret |-> "true", attempts |-> 0]
    ELSE ConnectLoop(1, outcomes, st)

\* NetworkManager.get_socket_pool(): st is <<addr, pool, made>>
get_socket_pool(st) ==
    IF ~is_connected(st[1])
    THEN [ret |-> "raise_not_connected", pool |-> st[2], made |-> st[3], handed |-> 0]
    ELSE IF st[2] # 0
    THEN [ret |-> "pool", pool |-> st[2], made |-> st[3], handed |-> st[2]]
    ELSE IF ~socketpoolPresent
    THEN [ret |-> "raise_no_socketpool", pool |-> st[2], made |-> st[3], handed |-> 0]
    ELSE [ret |-> "pool", pool |-> st[3] + 1, made |-> st[3] + 1, handed |-> st[3] + 1]

InitBuild ==
    /\ wifiPresent \in BOOLEAN
    /\ socketpoolPresent \in BOOLEAN

InitNetVars ==
    /\ radioAddr = FALSE
    /\ netLastError = 0
    /\ netSocketPool = 0
    /\ poolsMade = 0
    /\ netCall = NoCall

NetConnect ==
    \E outcomes \in [1..max_retries -> BOOLEAN] :
        LET r == connect(outcomes, <<radioAddr, netLastError, netSocketPool>>)
        IN /\ radioAddr' = r.addr
           /\ netLastError' = r.last_error
           /\ netSocketPool' = r.pool
           /\ netCall' = [op |-> "connect", ret |-> r.ret, attempts |-> r.attempts,
                          connectedBefore |-> is_connected(radioAddr),
                          outcomes |-> outcomes, pool |-> 0]
           /\ poolStale' = (r.pool # 0 /\ poolStale)
           /\ UNCHANGED poolsMade

NetGetSocketPool ==
    /\ poolsMade < MaxPools
    /\ LET r == get_socket_pool(<<radioAddr, netSocketPool, poolsMade>>)
       IN /\ netSocketPool' = r.pool
          /\ poolsMade' = r.made
          /\ netCall' = [NoCall EXCEPT !.op = "get_socket_pool", !.ret = r.ret,
                                       !.connectedBefore = is_connected(radioAddr),
                                       !.pool = r.handed]
          /\ poolStale' = (r.pool = netSocketPool /\ poolStale)
    /\ UNCHANGED <<radioAddr, netLastError>>

\* the environment: an established link drops
LinkLoss ==
    /\ radioAddr
    /\ radioAddr' = FALSE
    /\ netCall' = [NoCall EXCEPT !.op = "link_loss"]
    /\ poolStale' = (poolStale \/ netSocketPool # 0)
    /\ UNCHANGED <<netLastError, netSocketPool, poolsMade>>

\* the environment: the radio gets its address back without connect() being called
LinkRecovery ==
    /\ wifiPresent
    /\ ~radioAddr
    /\ radioAddr' = TRUE
    /\ netCall' = [NoCall EXCEPT !.op = "link_recovery"]
    /\ UNCHANGED <<netLastError, netSocketPool, poolsMade, poolStale>>

(***************************************************************************)
(* Startup: steps 3 (WLAN and NTP), 5 (MQTT) and 6 (web server) of the     *)
(* main logic, with MqttClient._ensure_socket_pool and WebServer.start.    *)
(***************************************************************************)
FactoryEvent(component, how, pool, addr) ==
    [component |-> component, how |-> how, pool |-> pool,
     connected |-> is_connected(addr)]

InitBootVars ==
    /\ bootPc = "off"
    /\ ssidSet = FALSE
    /\ brokerSet = FALSE
    /\ ntpPresent = FALSE
    /\ mqttLibPresent = FALSE
    /\ netObj = FALSE
    /\ mqttObj = FALSE
    /\ webObj = FALSE
    /\ mqttPool = 0
    /\ webPool = 0
    /\ factoryLog = {}

\* step 3: net = NetworkManager(...); net.connect(); on success the NTP client
\* is built over net.get_socket_pool().  An exception of the step leaves net None.
BootWifi ==
    /\ bootPc = "wifi"
    /\ bootPc' = "sensor"
    /\ IF ~ssidSet
       THEN /\ netObj' = FALSE
            /\ UNCHANGED <<netVars, factoryLog>>
       ELSE \E outcomes \in [1..max_retries -> BOOLEAN] :
            LET r == connect(outcomes, <<radioAddr, netLastError, netSocketPool>>)
                g == get_socket_pool(<<r.addr, r.pool, poolsMade>>)
                ntp == r.ret = "true" /\ ntpPresent
            IN /\ netObj' = (r.ret # "raise")
               /\ radioAddr' = r.addr
               /\ netLastError' = r.last_error
               /\ netSocketPool' = IF ntp THEN g.pool ELSE r.pool
               /\ poolsMade' = IF ntp THEN g.made ELSE poolsMade
               /\ netCall' = [op |-> "connect", ret |-> r.ret, attempts |-> r.attempts,
                              connectedBefore |-> is_connected(radioAddr),
                              outcomes |-> outcomes, pool |-> 0]
               /\ factoryLog' =
                      IF ntp /\ g.ret = "pool"
                      THEN factoryLog \cup {FactoryEvent("ntp", "handed", g.handed, r.addr)}
                      ELSE factoryLog
    /\ UNCHANGED <<ssidSet, brokerSet, ntpPresent, mqttLibPresent, mqttObj, webObj,
                   mqttPool, webPool>>

\* MqttClient._ensure_socket_pool on _socket_pool = pool: <<pool or 0, made, constructed>>
ensure_socket_pool(pool, made) ==
    IF pool # 0 THEN <<pool, made, FALSE>>
    ELSE IF ~wifiPresent THEN <<0, made, FALSE>>
    ELSE IF ~socketpoolPresent THEN <<0, made, FALSE>>
    ELSE <<made + 1, made + 1, TRUE>>

\* step 5: mqtt_cfg["socket_pool"] = net.get_socket_pool() when net is set;
\* MqttClient(mqtt_cfg); mqtt.connect(); mqtt.publish_status("ok").  sessionOk
\* tells whether the broker session opens and the status publish goes through.
BootMqtt ==
    /\ bootPc = "mqtt"
    /\ bootPc' = "web"
    /\ IF ~brokerSet
       THEN /\ mqttObj' = FALSE
            /\ UNCHANGED <<netSocketPool, poolsMade, mqttPool, factoryLog>>
       ELSE \E sessionOk \in BOOLEAN :
            LET g == get_socket_pool(<<radioAddr, netSocketPool, poolsMade>>)
                fromNet == netObj /\ g.ret = "pool"
                cfgPool == IF fromNet THEN g.handed ELSE 0
                made1 == IF netObj THEN g.made ELSE poolsMade
                e == ensure_socket_pool(cfgPool, made1)
                reached == (netObj => g.ret = "pool") /\ mqttLibPresent
            IN /\ netSocketPool' = IF netObj THEN g.pool ELSE netSocketPool
               /\ poolsMade' = IF reached THEN e[2] ELSE made1
               /\ mqttPool' = IF reached THEN e[1] ELSE cfgPool
               /\ mqttObj' = (reached /\ e[1] # 0 /\ sessionOk)
               /\ factoryLog' = factoryLog
                      \cup (IF fromNet
                            THEN {FactoryEvent("mqtt", "handed", g.handed, radioAddr)}
                            ELSE {})
                      \cup (IF reached /\ e[3]
                            THEN {FactoryEvent("mqtt", "constructed", e[1], radioAddr)}
                            ELSE {})
    /\ UNCHANGED <<radioAddr, netLastError, netCall, ssidSet, brokerSet, ntpPresent,
                   mqttLibPresent, netObj, webObj, webPool>>

\* step 6: web = WebServer(...); web.start() when net is set.  listenOk tells
\* whether socket(), bind() and listen() go through.
BootWeb ==
    /\ bootPc = "web"
    /\ bootPc' = "interval"
    /\ IF ~netObj
       THEN /\ webObj' = FALSE
            /\ UNCHANGED <<poolsMade, webPool, factoryLog>>
       ELSE \E listenOk \in BOOLEAN :
            LET built == wifiPresent /\ socketpoolPresent
            IN /\ webPool' = IF built THEN poolsMade + 1 ELSE 0
               /\ poolsMade' = IF built THEN poolsMade + 1 ELSE poolsMade
               /\ webObj' = (built /\ listenOk)
               /\ factoryLog' =
                      IF built
                      THEN factoryLog
                           \cup {FactoryEvent("web", "constructed", poolsMade + 1, radioAddr)}
                      ELSE factoryLog
    /\ UNCHANGED <<radioAddr, netLastError, netSocketPool, netCall, ssidSet, brokerSet,
                   ntpPresent, mqttLibPresent, netObj, mqttObj, mqttPool>>

\* the settings startup runs on, as far as steps 4 and 7 look at them
InitStartVars ==
    /\ bootCfg = [dhtLib |-> FALSE, typeIsStr |-> TRUE, pinResolves |-> TRUE,
                  intervalIsNumber |-> TRUE]
    /\ bootSensor = "none"

\* Sensor.__init__: sensor_type.upper() needs a str; without adafruit_dht or
\* board the object stays without a driver; an unresolved pin raises
\* ValueError; the driver's constructor may raise (only TypeError is retried)
sensor_init(cfg, construct) ==
    IF ~cfg.typeIsStr THEN "raise"
    ELSE IF ~cfg.dhtLib THEN "disabled"
    ELSE IF ~cfg.pinResolves THEN "raise"
    ELSE IF construct = "raise" THEN "raise"
    ELSE "ready"

\* step 4: sensor = Sensor(sensor_pin, sensor_type), outside any try
BootSensor ==
    /\ bootPc = "sensor"
    /\ \E construct \in {"ok", "raise"} :
           LET r == sensor_init(bootCfg, construct)
           IN /\ bootPc' = (IF r = "raise" THEN "crashed" ELSE "mqtt")
              /\ bootSensor' = (IF r = "raise" THEN "none" ELSE r)
    /\ UNCHANGED <<bootCfg, ssidSet, brokerSet, ntpPresent, mqttLibPresent, netObj, mqttObj,
                   webObj, mqttPool, webPool, factoryLog>>

\* step 7: interval = float(settings.get("reading_interval_seconds", 2)),
\* outside any try; then the loop is entered
BootInterval ==
    /\ bootPc = "interval"
    /\ bootPc' = (IF bootCfg.intervalIsNumber THEN "loop" ELSE "crashed")
    /\ UNCHANGED <<bootCfg, bootSensor, ssidSet, brokerSet, ntpPresent, mqttLibPresent,
                   netObj, mqttObj, webObj, mqttPool, webPool, factoryLog>>

(***************************************************************************)
(* Sensor.read_data.  Time is counted in seconds; time.sleep(d) returns    *)
(* after d seconds or later.                                               *)
(***************************************************************************)
min_interval == 2

read_attempts == 3

retry_sleep == 1

MaxTime == 8

MaxJitter == 1

NoRead == [op |-> "none", ret |-> "none", attempts |-> 0, startedAt |-> 0,
           elapsed |-> 0, waited |-> 0, endedAt |-> 0,
           outcomes |-> [i \in 1..read_attempts |-> FALSE]]

\* no residual wait at all
SensorWaitNone(t, lastTs) == 0

\* the residual wait: min_interval - elapsed when elapsed < min_interval
SensorWait(t, lastTs) ==
    IF t - lastTs < min_interval THEN min_interval - (t - lastTs) ELSE 0

\* the loop that gives up at the first failed attempt
ReadLoopNoRetry(i, outcomes, jitter, t, err, ts) ==
    IF outcomes[i]
    THEN [ret |-> "data", attempts |-> i, t |-> t, err |-> 0, ts |-> t]
    ELSE [ret |-> "none", attempts |-> i, t |-> t + retry_sleep + jitter, err |-> i,
          ts |-> ts]

\* the for-loop of read_data() from attempt i on at time t; outcomes[i] tells
\* whether the sensor delivers both values at attempt i, jitter by how much a
\* sleep overruns.  err is _last_error, ts is _last_read_timestamp.
RECURSIVE ReadLoop(_, _, _, _, _, _)
ReadLoop(i, outcomes, jitter, t, err, ts) ==
    IF i > read_attempts
    THEN [ret |-> "none", attempts |-> read_attempts, t |-> t, err |-> err, ts |-> ts]
    ELSE IF outcomes[i]
    THEN [ret |-> "data", attempts |-> i, t |-> t, err |-> 0, ts |-> t]
    ELSE ReadLoop(i + 1, outcomes, jitter, t + retry_sleep + jitter, i, ts)

\* read_data() without the check of self._sensor
read_data_unchecked(outcomes, jitter, t, err, ts) ==
    IF SensorWait(t, ts) > 0
    THEN ReadLoop(1, outcomes, jitter, t + SensorWait(t, ts) + jitter, err, ts)
    ELSE ReadLoop(1, outcomes, jitter, t, err, ts)

\* Sensor.read_data() called at time t
read_data(outcomes, jitter, t, err, ts) ==
    IF ~sensorReady
    THEN [ret |-> "raise", attempts |-> 0, t |-> t, err |-> err, ts |-> ts]
    ELSE IF SensorWait(t, ts) > 0
    THEN ReadLoop(1, outcomes, jitter, t + SensorWait(t, ts) + jitter, err, ts)
    ELSE ReadLoop(1, outcomes, jitter, t, err, ts)

InitSensorVars ==
    /\ now = 0
    /\ sensorReady = FALSE
    /\ sensorLastRead = 0
    /\ sensorLastError = 0
    /\ prevReadAt = -1
    /\ lastReadAt = -1
    /\ sensorCall = NoRead

\* the record of a read_data() call made now, r its result
ReadCall(r, outcomes) ==
    [op |-> "read_data", ret |-> r.ret, attempts |-> r.attempts,
     startedAt |-> now, elapsed |-> now - sensorLastRead,
     waited |-> IF sensorReady THEN SensorWait(now, sensorLastRead) ELSE 0,
     endedAt |-> r.t, outcomes |-> outcomes]

SensorRead ==
    /\ now < MaxTime
    /\ \E outcomes \in [1..read_attempts -> BOOLEAN], jitter \in 0..MaxJitter :
        LET r == read_data(outcomes, jitter, now, sensorLastError, sensorLastRead)
        IN /\ now' = r.t
           /\ sensorLastError' = r.err
           /\ sensorLastRead' = r.ts
           /\ prevReadAt' = IF r.ret = "data" THEN lastReadAt ELSE prevReadAt
           /\ lastReadAt' = IF r.ret = "data" THEN r.t ELSE lastReadAt
           /\ sensorCall' = ReadCall(r, outcomes)
    /\ UNCHANGED sensorReady

\* the environment: a second passes between two calls
ClockTick ==
    /\ now < MaxTime
    /\ now' = now + 1
    /\ UNCHANGED <<sensorReady, sensorLastRead, sensorLastError, prevReadAt, lastReadAt,
                   sensorCall>>

(***************************************************************************)
(* The main loop.  One tick is mqtt.loop(), web.poll(), the interval       *)
(* check, sensor.read_data() and the publishes, then time.sleep(0.05).     *)
(* What each call does is the environment's choice: it returns, raises,    *)
(* or (web.poll after a persisted configuration) resets the device.        *)
(***************************************************************************)
Outcomes == {"ok", "raise"}

\* the two quantities of a reading, each with a topic of its own
Quantities == {"temperature", "humidity"}

\* MqttClient.__init__: config.get("<q>_topic") or "<base>/<q>" if the base
\* topic is set, else None; TRUE when the topic of quantity q is not None
quantity_topic(q, base, explicit) == q \in explicit \/ base

InitLoopVars ==
    /\ loopPc = "off"
    /\ loopMqtt = FALSE
    /\ loopWeb = FALSE
    /\ topicSet = FALSE
    /\ quantityTopics = {}
    /\ tickParity = 0
    /\ tickLog = <<>>

\* if mqtt is not None: mqtt.loop(); on an exception mqtt.publish_status("error"),
\* whose own exception is swallowed
LoopMqtt ==
    /\ loopPc = "mqtt_loop"
    /\ loopPc' = "web_poll"
    /\ IF ~loopMqtt
       THEN UNCHANGED tickLog
       ELSE \E out \in Outcomes, st \in Outcomes :
                tickLog' = IF out = "raise"
                           THEN tickLog \o <<<<"mqtt_loop", out>>, <<"status_error", st>>>>
                           ELSE Append(tickLog, <<"mqtt_loop", out>>)
    /\ UNCHANGED <<loopMqtt, loopWeb, topicSet, quantityTopics, tickParity>>

\* the loop with the web.poll() call left out
LoopWebSkipped ==
    /\ loopPc = "web_poll"
    /\ loopPc' = "interval"
    /\ UNCHANGED <<tickLog, loopMqtt, loopWeb, topicSet, quantityTopics, tickParity>>

\* if web is not None: web.poll(), an exception swallowed
LoopWeb ==
    /\ loopPc = "web_poll"
    /\ IF ~loopWeb
       THEN /\ loopPc' = "interval"
            /\ UNCHANGED tickLog
       ELSE \E out \in Outcomes \cup {"reset"} :
                /\ tickLog' = Append(tickLog, <<"web_poll", out>>)
                /\ loopPc' = IF out = "reset" THEN "reset" ELSE "interval"
    /\ UNCHANGED <<loopMqtt, loopWeb, topicSet, quantityTopics, tickParity>>

\* if now - last_send >= interval
LoopInterval ==
    /\ loopPc = "interval"
    /\ \E elapsed \in BOOLEAN : loopPc' = IF elapsed THEN "read" ELSE "sleep"
    /\ UNCHANGED <<tickLog, loopMqtt, loopWeb, topicSet, quantityTopics, tickParity>>

\* data = sensor.read_data(); without data mqtt.publish_status("error").
\* driverRaises: the sensor driver raises something other than RuntimeError,
\* which read_data() lets through.  This specification keeps the clock still:
\* the timestamp of the read and the record of the call are not kept.
LoopRead ==
    /\ loopPc = "read"
    /\ \E outcomes \in [1..read_attempts -> BOOLEAN], driverRaises \in BOOLEAN,
          st \in Outcomes :
        LET r == read_data(outcomes, 0, now, sensorLastError, sensorLastRead)
            out == IF sensorReady /\ driverRaises THEN "raise" ELSE r.ret
        IN
        /\ sensorLastError' = (IF sensorReady /\ driverRaises THEN sensorLastError
                               ELSE r.err)
        /\ tickLog' = IF out = "none" /\ loopMqtt
                      THEN tickLog \o <<<<"sensor_read", out>>, <<"status_error", st>>>>
                      ELSE Append(tickLog, <<"sensor_read", out>>)
        /\ loopPc' = CASE out = "raise" -> "except"
                       [] out = "data" /\ loopMqtt /\ topicSet -> "publish"
                       [] OTHER -> "sleep"
    /\ UNCHANGED <<loopMqtt, loopWeb, topicSet, quantityTopics, tickParity, now, sensorReady, prevReadAt,
                   lastReadAt, sensorCall, sensorLastRead>>

\* mqtt.publish_status("ok"), swallowed; mqtt.publish_telemetry(data); on an
\* exception mqtt.publish_status("error"), swallowed
LoopPublish ==
    /\ loopPc = "publish"
    /\ loopPc' = "sleep"
    /\ \E st \in Outcomes, tel \in Outcomes, st2 \in Outcomes :
        tickLog' = tickLog \o <<<<"status_ok", st>>, <<"telemetry", tel>>>>
                   \o (IF tel = "raise" THEN <<<<"status_error", st2>>>> ELSE <<>>)
    /\ UNCHANGED <<loopMqtt, loopWeb, topicSet, quantityTopics, tickParity>>

\* time.sleep(0.05), then the next iteration of "while True"
LoopSleep ==
    /\ loopPc = "sleep"
    /\ loopPc' = "mqtt_loop"
    /\ tickLog' = <<>>
    /\ tickParity' = 1 - tickParity
    /\ UNCHANGED <<loopMqtt, loopWeb, topicSet, quantityTopics>>

\* an exception that leaves the loop instead of being caught
LoopExceptExit ==
    /\ loopPc = "except"
    /\ loopPc' = "terminated"
    /\ UNCHANGED <<tickLog, tickParity, loopMqtt, loopWeb, topicSet, quantityTopics>>

\* except Exception: print, time.sleep(1.0), then the next iteration
LoopExcept ==
    /\ loopPc = "except"
    /\ loopPc' = "mqtt_loop"
    /\ tickLog' = <<>>
    /\ tickParity' = 1 - tickParity
    /\ UNCHANGED <<loopMqtt, loopWeb, topicSet, quantityTopics>>

(***************************************************************************)
(* The settings file and WebServer.  A document maps each key to a value   *)
(* or to Absent.  The file holds a complete document, nothing (truncated   *)
(* by open(..., "wb")), the first lines of a document (a write cut short), *)
(* or does not exist.                                                      *)
(***************************************************************************)
Absent == "-"

HKeys == <<"device_id", "reading_interval_seconds">>

HKeySet == {HKeys[i] : i \in 1..Len(HKeys)}

HVals == {"1", "2"}

NoDoc == [k \in HKeySet |-> Absent]

NoUpdate == [k \in HKeySet |-> Absent]

Updates == [HKeySet -> HVals \cup {Absent}] \ {NoUpdate}

DocFile(d) == [kind |-> "doc", doc |-> d]

\* settings.update(updates)
Merge(settings, updates) ==
    [k \in HKeySet |-> IF updates[k] # Absent THEN updates[k] ELSE settings[k]]

\* the first n keys of a document, as a cut-short write leaves them
Prefix(d, n) ==
    [k \in HKeySet |-> IF \E i \in 1..n : HKeys[i] = k THEN d[k] ELSE Absent]

\* ConfigManager.load_settings(): the document, or "raise" when open() fails
load_settings(f) ==
    IF f.kind = "absent" THEN [ret |-> "raise", doc |-> NoDoc]
    ELSE IF f.kind = "empty" THEN [ret |-> "ok", doc |-> NoDoc]
    ELSE [ret |-> "ok", doc |-> f.doc]

Methods == {"GET", "POST", "PUT", "OPTIONS", "DELETE"}

Paths ==
    {"/", "/api/config", "/api/status", "/api/other", "/api/", "/api", "/other", "/status",
     "/config"}

\* path.startswith("/api/")
ApiPaths == {"/api/config", "/api/status", "/api/other", "/api/"}

ContentTypes == {"application/json", "application/x-www-form-urlencoded", "none"}

\* a request as read from the client; body is "empty", "updates" (the fields of
\* upd, as a form or as a JSON object), "invalid" (text that is not JSON),
\* "nonobject" (JSON that is no object, or whose "config" member is none) or
\* "nofields" (the JSON object {}, or {"config": {}})
Requests ==
    {r \in [method : Methods, path : Paths, ctype : ContentTypes,
            body : {"empty", "updates", "invalid", "nonobject", "nofields"},
            upd : Updates \cup {NoUpdate}] :
        /\ (r.body = "updates") = (r.upd # NoUpdate)
        /\ r.body # "empty" => r.method \in {"POST", "PUT"}
        /\ r.body \in {"invalid", "nonobject", "nofields"} => r.ctype = "application/json"
        /\ r.ctype # "none" => r.method \in {"POST", "PUT"}}

\* what poll() hands to _handle_request when recv delivered nothing
EmptyData == [method |-> "", path |-> "", ctype |-> "none", body |-> "empty",
              upd |-> NoUpdate]

NoResponse == [code |-> 0, kind |-> "none", tag |-> "none", cors |-> FALSE]

\* _http_response(status_code, body, content_type, headers)
http_response(code, kind, tag, cors) ==
    [code |-> code, kind |-> kind, tag |-> tag, cors |-> cors]

\* _json_error(status, code, message)
json_error(code, tag) == http_response(code, "json", tag, TRUE)

\* the routing without the OPTIONS branch of the /api/ block
RouteNoOptions(r) ==
    IF r.method = "" THEN "bad_request"
    ELSE IF r.path \in ApiPaths
    THEN (IF r.path = "/api/config"
          THEN (IF r.method = "GET" THEN "api_get_config"
                ELSE IF r.method = "PUT" THEN "api_put_config"
                ELSE "api_405")
          ELSE IF r.path = "/api/status"
          THEN (IF r.method = "GET" THEN "api_get_status" ELSE "api_405")
          ELSE "api_404")
    ELSE IF r.path = "/"
    THEN (IF r.method = "GET" THEN "get_root"
          ELSE IF r.method = "POST" THEN "post_root"
          ELSE "root_405")
    ELSE "root_404"

\* _handle_request: the handler a request is routed to, or its error response
Route(r) ==
    IF r.method = "" THEN "bad_request"
    ELSE IF r.path \in ApiPaths
    THEN (IF r.method = "OPTIONS" THEN "options"
          ELSE IF r.path = "/api/config"
          THEN (IF r.method = "GET" THEN "api_get_config"
                ELSE IF r.method = "PUT" THEN "api_put_config"
                ELSE "api_405")
          ELSE IF r.path = "/api/status"
          THEN (IF r.method = "GET" THEN "api_get_status" ELSE "api_405")
          ELSE "api_404")
    ELSE IF r.path = "/"
    THEN (IF r.method = "GET" THEN "get_root"
          ELSE IF r.method = "POST" THEN "post_root"
          ELSE "root_405")
    ELSE "root_404"

\* the checks of _api_put_config and _handle_post_request before the settings are
\* loaded: the error response, or NoResponse when the handler goes on to save
PreSaveResponse(r) ==
    IF Route(r) = "api_put_config"
    THEN (IF r.ctype # "application/json"
          THEN json_error(415, "unsupported_media_type")
          ELSE IF r.body = "invalid" THEN json_error(400, "invalid_json")
          ELSE IF r.body \in {"empty", "nonobject", "nofields"}
          THEN json_error(400, "invalid_request")
          ELSE NoResponse)
    ELSE (IF r.ctype # "application/x-www-form-urlencoded"
          THEN http_response(415, "text", "unsupported_media_type", FALSE)
          ELSE IF r.body = "empty" THEN http_response(400, "text", "no_data", FALSE)
          ELSE NoResponse)

\* the response of a request that writes nothing
PlainResponse(r, f) ==
    LET route == Route(r)
    IN CASE route = "bad_request" -> http_response(400, "text", "bad_request", FALSE)
         [] route = "options" -> http_response(204, "text", "empty", TRUE)
         [] route = "api_get_config" ->
                IF load_settings(f).ret = "ok"
                THEN http_response(200, "json", "config", TRUE)
                ELSE json_error(500, "internal_error")
         [] route = "api_405" -> json_error(405, "method_not_allowed")
         [] route = "api_get_status" -> http_response(200, "json", "status", TRUE)
         [] route = "api_404" -> json_error(404, "not_found")
         [] route = "get_root" -> http_response(200, "html", "form", FALSE)
         [] route = "root_405" -> http_response(405, "text", "method_not_allowed", FALSE)
         [] route = "root_404" -> http_response(404, "text", "not_found", FALSE)
         [] OTHER -> PreSaveResponse(r)

Saves(r) ==
    Route(r) \in {"api_put_config", "post_root"} /\ PreSaveResponse(r) = NoResponse

InitHttpVars ==
    /\ microPresent = FALSE
    /\ fsReadOnly = FALSE
    /\ file = DocFile(NoDoc)
    /\ fileBefore = DocFile(NoDoc)
    /\ httpPc = "off"
    /\ req = EmptyData
    /\ resp = NoResponse
    /\ saveDoc = NoDoc
    /\ pendingReset = FALSE
    /\ webLastError = FALSE
    /\ connLog = <<>>

\* poll(): self._listener.accept().  No pending client, or another OSError
\* (recorded in _last_error), returns at once; else the connection is taken.
PollAccept ==
    /\ httpPc = "idle"
    /\ \E outcome \in {"none", "oserror", "client"} :
        IF outcome = "client"
        THEN \E r \in Requests :
                /\ httpPc' = "recv"
                /\ req' = r
                /\ resp' = NoResponse
                /\ fileBefore' = file
                /\ connLog' = <<"accept">>
                /\ saveDoc' = NoDoc
                /\ UNCHANGED webLastError
        ELSE /\ webLastError' = (webLastError \/ outcome = "oserror")
             /\ UNCHANGED <<httpPc, req, resp, fileBefore, connLog, saveDoc>>
    /\ UNCHANGED <<microPresent, fsReadOnly, file, pendingReset>>

\* the recv loops: the request arrives, or nothing does (recv raises or the
\* peer closed), and _handle_request is given the empty text
PollRecv ==
    /\ httpPc = "recv"
    /\ httpPc' = "dispatch"
    /\ connLog' = Append(connLog, "recv")
    /\ \E arrived \in BOOLEAN : req' = IF arrived THEN req ELSE EmptyData
    /\ UNCHANGED <<microPresent, fsReadOnly, file, fileBefore, resp, saveDoc,
                   pendingReset, webLastError>>

\* an exception leaves _handle_request: poll() records it and goes to "finally"
HandlerRaises ==
    /\ httpPc' = "close"
    /\ resp' = NoResponse
    /\ webLastError' = TRUE
    /\ UNCHANGED pendingReset

\* the except branch, had the flag been raised before the write
PutFailsFlagged ==
    /\ resp' = json_error(500, "internal_error")
    /\ httpPc' = "send"
    /\ pendingReset' = TRUE
    /\ UNCHANGED webLastError

\* _api_put_config: "except Exception as exc" around load, serialize and write
PutFails ==
    /\ resp' = json_error(500, "internal_error")
    /\ httpPc' = "send"
    /\ UNCHANGED <<webLastError, pendingReset>>

\* response = self._handle_request(...).  A request that saves loads the
\* settings and merges the update; load_settings raising is answered 500 by
\* _api_put_config and leaves _handle_post_request as an exception.
Dispatch ==
    /\ httpPc = "dispatch"
    /\ connLog' = Append(connLog, "dispatch")
    /\ IF ~Saves(req)
       THEN /\ resp' = PlainResponse(req, file)
            /\ httpPc' = "send"
            /\ UNCHANGED <<saveDoc, webLastError, pendingReset>>
       ELSE IF load_settings(file).ret = "raise"
       THEN /\ UNCHANGED saveDoc
            /\ IF Route(req) = "api_put_config" THEN PutFails ELSE HandlerRaises
       ELSE /\ saveDoc' = Merge(load_settings(file).doc, req.upd)
            /\ httpPc' = "save_open"
            /\ UNCHANGED <<resp, webLastError, pendingReset>>
    /\ UNCHANGED <<microPresent, fsReadOnly, file, fileBefore, req>>

\* open(filepath, "wb"): raises on a read-only filesystem, else truncates
SaveOpen ==
    /\ httpPc = "save_open"
    /\ IF fsReadOnly
       THEN /\ connLog' = Append(connLog, "open_fail")
            /\ UNCHANGED file
            /\ IF Route(req) = "api_put_config" THEN PutFails ELSE HandlerRaises
       ELSE /\ connLog' = Append(connLog, "open")
            /\ file' = [kind |-> "empty", doc |-> NoDoc]
            /\ httpPc' = "save_write"
            /\ UNCHANGED <<resp, webLastError, pendingReset>>
    /\ UNCHANGED <<microPresent, fsReadOnly, fileBefore, req, saveDoc>>

\* the write followed by microcontroller.reset() at once, as in save_settings
PutWrittenResetsAtOnce ==
    /\ UNCHANGED <<pendingReset, resp>>
    /\ httpPc' = (IF microPresent THEN "reset" ELSE "send")
    /\ connLog' = (IF microPresent THEN connLog \o <<"write_ok", "reset">>
                   ELSE Append(connLog, "write_ok"))

\* _api_put_config after a write that went through: the flag, then 202
PutWritten ==
    /\ pendingReset' = TRUE
    /\ resp' = http_response(202, "json", "accepted", TRUE)
    /\ httpPc' = "send"
    /\ connLog' = Append(connLog, "write_ok")

\* save_settings after a write that went through: microcontroller.reset() when
\* there is one; else _handle_post_request returns 303
PostWritten ==
    /\ UNCHANGED pendingReset
    /\ IF microPresent
       THEN /\ httpPc' = "reset"
            /\ connLog' = connLog \o <<"write_ok", "reset">>
            /\ UNCHANGED resp
       ELSE /\ httpPc' = "send"
            /\ connLog' = Append(connLog, "write_ok")
            /\ resp' = http_response(303, "text", "saved", FALSE)

\* file.write(serialized): goes through, or raises with the file cut short
SaveWrite ==
    /\ httpPc = "save_write"
    /\ \E ok \in BOOLEAN :
        IF ok
        THEN /\ file' = DocFile(saveDoc)
             /\ UNCHANGED webLastError
             /\ IF Route(req) = "api_put_config" THEN PutWritten ELSE PostWritten
        ELSE /\ \E n \in 0..(Len(HKeys) - 1) :
                    file' = [kind |-> "partial", doc |-> Prefix(saveDoc, n)]
             /\ connLog' = Append(connLog, "write_fail")
             /\ IF Route(req) = "api_put_config" THEN PutFails ELSE HandlerRaises
    /\ UNCHANGED <<microPresent, fsReadOnly, fileBefore, req, saveDoc>>

\* the send loop: the whole response is written, or send raises or returns 0
PollSend ==
    /\ httpPc = "send"
    /\ httpPc' = "close"
    /\ \E sent \in BOOLEAN :
        connLog' = Append(connLog, IF sent THEN "send_ok" ELSE "send_fail")
    /\ UNCHANGED <<microPresent, fsReadOnly, file, fileBefore, req, resp, saveDoc,
                   pendingReset, webLastError>>

\* finally: client.close(); then, if _pending_reset, the flag is cleared and
\* microcontroller.reset() is called when there is one.  Else poll() returns
\* and its locals (the request, the response) are gone.
PollClose ==
    /\ httpPc = "close"
    /\ pendingReset' = FALSE
    /\ IF pendingReset /\ microPresent
       THEN /\ httpPc' = "reset"
            /\ connLog' = connLog \o <<"close", "reset">>
            /\ UNCHANGED <<req, resp, saveDoc>>
       ELSE /\ httpPc' = "idle"
            /\ connLog' = <<>>
            /\ req' = EmptyData
            /\ resp' = NoResponse
            /\ saveDoc' = NoDoc
    /\ UNCHANGED <<microPresent, fsReadOnly, file, fileBefore, webLastError>>

\* the environment: the device loses power during a save; in the middle of
\* file.write the file is left cut short
Crash ==
    /\ httpPc \in {"save_open", "save_write"}
    /\ httpPc' = "crashed"
    /\ connLog' = Append(connLog, "crash")
    /\ IF httpPc = "save_write"
       THEN \E n \in 0..Len(HKeys) :
               file' = IF n = 0 THEN file
                       ELSE [kind |-> "partial", doc |-> Prefix(saveDoc, n - 1)]
       ELSE UNCHANGED file
    /\ UNCHANGED <<microPresent, fsReadOnly, fileBefore, req, resp, saveDoc,
                   pendingReset, webLastError>>

(***************************************************************************)
(* The configuration API on the text of the settings file: what            *)
(* GET /api/config returns and what PUT /api/config writes, through        *)
(* load_settings, dict.update and _dump_toml.  json.dumps / json.loads     *)
(* carry strings, numbers and booleans unchanged.                          *)
(***************************************************************************)
\* settings.update(updates) on ordered mappings
RECURSIVE DictUpdate(_, _)
DictUpdate(settings, updates) ==
    IF updates = <<>> THEN settings
    ELSE DictUpdate(DictSet(settings, Head(updates)[1], Head(updates)[2]), Tail(updates))

\* _api_get_config on a readable file: 200 with {"config": settings}
api_get_config(text) == parse_minimal_toml(text)

\* _api_put_config with a JSON object of scalars: load, update, serialize,
\* write over the file; 202
api_put_config(text, updates) ==
    IF updates = <<>> THEN [code |-> 400, text |-> text]
    ELSE [code |-> 202,
          text |-> dump_toml(DictUpdate(parse_minimal_toml(text), updates))]

ApiValues ==
    {StrV(<<"a">>), StrV(<<"a", QUOTE>>), IntV(5), BoolV(TRUE), FloatV(25, 1),
     FloatV(1, 7)}

InitApiVars ==
    /\ apiPc = "off"
    /\ apiFile = <<>>
    /\ apiUpd = <<>>
    /\ apiGets = <<>>
    /\ apiCodes = <<>>

ApiGet ==
    /\ apiPc \in {"get1", "get2", "get3"}
    /\ apiPc' = (CASE apiPc = "get1" -> "put1" [] apiPc = "get2" -> "put2"
                   [] OTHER -> "done")
    /\ apiGets' = Append(apiGets, api_get_config(apiFile))
    /\ UNCHANGED <<apiFile, apiUpd, apiCodes>>

ApiPut ==
    /\ apiPc \in {"put1", "put2"}
    /\ apiPc' = (IF apiPc = "put1" THEN "get2" ELSE "get3")
    /\ apiFile' = api_put_config(apiFile, apiUpd).text
    /\ apiCodes' = Append(apiCodes, api_put_config(apiFile, apiUpd).code)
    /\ UNCHANGED <<apiUpd, apiGets>>

(***************************************************************************)
(* MqttClient.  The MQTT library client and the broker are the             *)
(* environment: a connect or a publish goes through or raises.             *)
(***************************************************************************)
NoWill == [topic |-> "none", status |-> "none", retain |-> FALSE]

NoMqttCall == [op |-> "none", arg |-> "none", ret |-> "none", emitted |-> <<>>]

Message(topic, retain) == [topic |-> topic, retain |-> retain]

\* __init__: config.get(key) or (f"{telemetry_topic}/..." if telemetry_topic else None)
ResolveTopic(explicit, base) ==
    IF explicit THEN "explicit" ELSE IF base THEN "derived" ELSE "none"

temperature_topic == ResolveTopic(mqCfg.temperature, mqCfg.telemetry)

humidity_topic == ResolveTopic(mqCfg.humidity, mqCfg.telemetry)

\* a client built without a last will
WillNever(hasStatusTopic) == NoWill

\* connect(), on a new client: will_set(status_topic, offline payload, retain=True)
\* if a status topic is configured
WillAtCreate(hasStatusTopic) ==
    IF hasStatusTopic
    THEN [topic |-> "status", status |-> "offline", retain |-> TRUE]
    ELSE NoWill

\* the loop that gives up silently at the first failing publish
PublishLoopSwallows(outcomes) ==
    IF ~outcomes[1] THEN [ret |-> "ok", emitted |-> <<>>]
    ELSE IF ~outcomes[2]
    THEN [ret |-> "ok", emitted |-> <<Message("temperature", FALSE)>>]
    ELSE [ret |-> "ok",
          emitted |-> <<Message("temperature", FALSE), Message("humidity", FALSE)>>]

\* publish_telemetry: "for topic, value, unit in readings: publish(topic, payload)",
\* an exception of publish recorded and raised again
PublishLoop(outcomes) ==
    IF ~outcomes[1] THEN [ret |-> "raise_publish", emitted |-> <<>>]
    ELSE IF ~outcomes[2]
    THEN [ret |-> "raise_publish", emitted |-> <<Message("temperature", FALSE)>>]
    ELSE [ret |-> "ok",
          emitted |-> <<Message("temperature", FALSE), Message("humidity", FALSE)>>]

\* the cached status set whether or not the publish went through
StatusSetAnyway(ok, old, new) == new

\* publish_status: self._status = status after a publish that did not raise
StatusAfterPublish(ok, old, new) == IF ok THEN new ELSE old

Statuses == {"ok", "error", "offline"}

InitMqttVars ==
    /\ mqCfg = [telemetry |-> FALSE, temperature |-> FALSE, humidity |-> FALSE,
                status |-> FALSE]
    /\ mqClient = FALSE
    /\ mqWill = NoWill
    /\ mqSession = FALSE
    /\ mqOpens = {}
    /\ mqStatus = "offline"
    /\ mqLastError = "none"
    /\ mqPublished = "offline"
    /\ mqCall = NoMqttCall

\* MqttClient.connect()
MqttConnect ==
    /\ LET e == ensure_socket_pool(mqttPool, poolsMade)
           will == IF mqClient THEN mqWill ELSE WillAtCreate(mqCfg.status)
       IN IF ~mqttLibPresent
          THEN /\ mqCall' = [NoMqttCall EXCEPT !.op = "connect", !.ret = "raise_no_mqtt"]
               /\ UNCHANGED <<mqttPool, poolsMade, mqClient, mqWill, mqSession, mqOpens,
                              mqLastError>>
          ELSE IF e[1] = 0
          THEN /\ mqCall' = [NoMqttCall EXCEPT !.op = "connect", !.ret = "raise_no_pool"]
               /\ UNCHANGED <<mqttPool, poolsMade, mqClient, mqWill, mqSession, mqOpens,
                              mqLastError>>
          ELSE /\ mqttPool' = e[1]
               /\ poolsMade' = e[2]
               /\ mqClient' = TRUE
               /\ mqWill' = will
               /\ mqOpens' = mqOpens \cup {will}
               /\ \E opened \in BOOLEAN :
                    /\ mqSession' = opened
                    /\ mqLastError' = (IF opened THEN "none" ELSE "connect")
                    /\ mqCall' = [NoMqttCall EXCEPT
                                     !.op = "connect",
                                     !.ret = IF opened THEN "ok" ELSE "raise_connect"]
    /\ UNCHANGED <<mqCfg, mqStatus, mqPublished>>

\* MqttClient.publish_telemetry(data); numeric tells whether data holds two
\* values float() accepts
MqttPublishTelemetry ==
    /\ \E numeric \in BOOLEAN, outcomes \in [1..2 -> BOOLEAN] :
        LET r == IF temperature_topic = "none" \/ humidity_topic = "none"
                 THEN [ret |-> "raise_not_configured", emitted |-> <<>>]
                 ELSE IF ~mqClient THEN [ret |-> "raise_no_client", emitted |-> <<>>]
                 ELSE IF ~numeric THEN [ret |-> "raise_data", emitted |-> <<>>]
                 ELSE PublishLoop(outcomes)
        IN /\ mqCall' = [op |-> "publish_telemetry", arg |-> "reading",
                         ret |-> r.ret, emitted |-> r.emitted]
           /\ mqLastError' = (IF r.ret = "raise_publish" THEN "publish" ELSE mqLastError)
    /\ UNCHANGED <<mqCfg, mqClient, mqWill, mqSession, mqOpens, mqStatus, mqPublished,
                   mqttPool, poolsMade>>

\* MqttClient.publish_status(status)
MqttPublishStatus ==
    /\ \E status \in Statuses, ok \in BOOLEAN :
        IF ~mqCfg.status
        THEN /\ mqCall' = [NoMqttCall EXCEPT !.op = "publish_status", !.arg = status,
                                             !.ret = "ok"]
             /\ UNCHANGED <<mqStatus, mqLastError, mqPublished>>
        ELSE IF ~mqClient
        THEN /\ mqCall' = [NoMqttCall EXCEPT !.op = "publish_status", !.arg = status,
                                             !.ret = "raise_no_client"]
             /\ UNCHANGED <<mqStatus, mqLastError, mqPublished>>
        ELSE /\ mqCall' = [op |-> "publish_status", arg |-> status,
                           ret |-> IF ok THEN "ok" ELSE "raise_publish",
                           emitted |-> IF ok THEN <<Message("status", TRUE)>> ELSE <<>>]
             /\ mqStatus' = StatusAfterPublish(ok, mqStatus, status)
             /\ mqPublished' = (IF ok THEN status ELSE mqPublished)
             /\ mqLastError' = (IF ok THEN mqLastError ELSE "publish")
    /\ UNCHANGED <<mqCfg, mqClient, mqWill, mqSession, mqOpens, mqttPool, poolsMade>>

\* the environment: the session with the broker drops
MqttSessionLoss ==
    /\ mqSession
    /\ mqSession' = FALSE
    /\ UNCHANGED <<mqCfg, mqClient, mqWill, mqOpens, mqStatus, mqLastError, mqPublished,
                   mqCall, mqttPool, poolsMade>>

(***************************************************************************)
(* WebServer._http_response.  A body is a sequence of characters, encoded  *)
(* as UTF-8 into one, two or three bytes each.                             *)
(***************************************************************************)
MaxBodyLen == 3

BodyAlphabet == {"a", "ä", "€"}

\* character.encode("utf-8")
Utf8Char(c) ==
    CASE c = "ä" -> <<"C3", "A4">>
      [] c = "€" -> <<"E2", "82", "AC">>
      [] OTHER -> <<c>>

\* body.encode("utf-8")
RECURSIVE Utf8(_)
Utf8(body) == IF body = <<>> THEN <<>> ELSE Utf8Char(Head(body)) \o Utf8(Tail(body))

\* the length of the text instead of the length of its encoding
ContentLengthInChars(body) == NatStr(Len(body))

\* f"Content-Length: {len(body.encode('utf-8'))}"
ContentLength(body) == NatStr(Len(Utf8(body)))

\* reason_phrases.get(status_code, "OK")
ReasonPhrase(code) ==
    CASE code = 200 -> "OK"
      [] code = 303 -> "See Other"
      [] code = 400 -> "Bad Request"
      [] code = 404 -> "Not Found"
      [] code = 405 -> "Method Not Allowed"
      [] code = 415 -> "Unsupported Media Type"
      [] code = 500 -> "Internal Server Error"
      [] OTHER -> "OK"

HeaderLine(name, value) == [name |-> name, value |-> value]

\* _cors_headers()
cors_headers ==
    <<HeaderLine("Access-Control-Allow-Origin", <<"*">>),
      HeaderLine("Access-Control-Allow-Methods", <<"GET,PUT,POST,OPTIONS">>),
      HeaderLine("Access-Control-Allow-Headers", <<"Content-Type">>)>>

\* the headers argument the handlers pass
ExtraHeaders(extra) ==
    CASE extra = "cors" -> cors_headers
      [] extra = "location" -> <<HeaderLine("Location", <<"/">>)>>
      [] OTHER -> <<>>

\* _http_response(status_code, body, content_type=..., headers=...): the status
\* line, the header lines in order, and the bytes after the blank line
http_response_bytes(status_code, body, content_type, extra) ==
    [status |-> <<"HTTP/1.1", status_code, ReasonPhrase(status_code)>>,
     headers |-> <<HeaderLine("Content-Type", <<content_type, "; charset=utf-8">>),
                   HeaderLine("Content-Length", ContentLength(body)),
                   HeaderLine("Connection", <<"close">>)>> \o ExtraHeaders(extra),
     body |-> Utf8(body)]

RECURSIVE StringsOver(_, _)
StringsOver(alphabet, k) ==
    IF k = 0 THEN {<<>>}
    ELSE LET shorter == StringsOver(alphabet, k - 1)
         IN shorter \cup {Append(s, c) : s \in {x \in shorter : Len(x) = k - 1},
                                         c \in alphabet}

StatusCodes == {200, 202, 204, 303, 400, 404, 405, 415, 500}

Bodies ==
    StringsOver(BodyAlphabet, MaxBodyLen) \cup {<<"€", "€", "€", "€">>}

NoRspIn == [code |-> 0, body |-> <<>>, ctype |-> "none", extra |-> "none"]

NoRspOut == [status |-> <<>>, headers |-> <<>>, body |-> <<>>]

InitRspVars ==
    /\ rspPc = "off"
    /\ rspIn = NoRspIn
    /\ rspOut = NoRspOut

HttpRespond ==
    /\ rspPc = "input"
    /\ rspPc' = "done"
    /\ rspOut' = http_response_bytes(rspIn.code, rspIn.body, rspIn.ctype, rspIn.extra)
    /\ UNCHANGED rspIn

(***************************************************************************)
(* SpecToml: the serializer and parser applied to a bounded set of         *)
(* documents.                                                              *)
(***************************************************************************)
MaxStrLen == 2
MaxKeys == 2

StrAlphabet == {"a", "5", QUOTE}

RECURSIVE StringsUpTo(_)
StringsUpTo(k) ==
    IF k = 0 THEN {<<>>}
    ELSE LET shorter == StringsUpTo(k - 1)
         IN shorter \cup {Append(s, c) : s \in {x \in shorter : Len(x) = k - 1},
                                         c \in StrAlphabet}

TomlStrings ==
    StringsUpTo(MaxStrLen) \cup {<<"t", "r", "u", "e">>, <<"1", ".", "5">>}

TomlValues ==
    {StrV(s) : s \in TomlStrings}
    \cup {IntV(n) : n \in {-1, 0, 7, 12}}
    \cup {BoolV(b) : b \in BOOLEAN}
    \cup {FloatV(25, 1), FloatV(-5, 1), FloatV(20, 1), FloatV(1, 7)}

TomlKeys == {<<"k">>, <<"w", "_", "p">>}

TomlDocs ==
    {<<>>}
    \cup {<<<<k, v>>>> : k \in TomlKeys, v \in TomlValues}
    \cup (IF MaxKeys >= 2
          THEN {d \in {<<<<k1, v1>>, <<k2, v2>>>> :
                          k1 \in TomlKeys, k2 \in TomlKeys,
                          v1 \in TomlValues, v2 \in TomlValues} : d[1][1] # d[2][1]}
          ELSE {})

(***************************************************************************)
(* WebServer._api_get_status and NetworkManager.get_ip.                    *)
(***************************************************************************)
IpText == "192.168.1.100"

\* f"{n:0kd}": at least k digits, zero-padded
ZeroPad(n, k) == IF Len(NatStr(n)) >= k THEN NatStr(n) ELSE PadNat(n, k)

\* f"{y:04d}-{m:02d}-{d:02d}T{hh:02d}:{mm:02d}:{ss:02d}Z"
Iso8601(tm) ==
    ZeroPad(tm[1], 4) \o <<"-">> \o ZeroPad(tm[2], 2) \o <<"-">> \o ZeroPad(tm[3], 2)
    \o <<"T">> \o ZeroPad(tm[4], 2) \o <<":">> \o ZeroPad(tm[5], 2) \o <<":">>
    \o ZeroPad(tm[6], 2) \o <<"Z">>

\* readings of time.gmtime()
ClockReadings ==
    {<<1970, 1, 1, 0, 0, 0>>, <<2000, 12, 31, 23, 59, 59>>, <<2026, 11, 4, 3, 7, 40>>}

get_ip_unguarded(addr) == IF addr THEN IpText ELSE "None"

\* NetworkManager.get_ip()
get_ip(addr) == IF ~is_connected(addr) THEN "0.0.0.0" ELSE IpText

\* str(cfg.get("device_id", "unknown")), "unknown" as well when the load raises
StatusDeviceId(f) ==
    IF load_settings(f).ret = "raise" THEN "unknown"
    ELSE IF load_settings(f).doc["device_id"] = Absent THEN "unknown"
    ELSE load_settings(f).doc["device_id"]

StatusOrOk(web, status) == IF web.mqtt /\ status # "" THEN status ELSE "ok"

NoStatusResp ==
    [code |-> 0, device_id |-> "", timestamp |-> <<>>, status |-> "", ip |-> "",
     cors |-> FALSE, ctype |-> "none"]

\* _api_get_status(): always 200; ip stays None (JSON null) without a manager
api_get_status(web, f, addr, status, tm) ==
    [code |-> 200,
     device_id |-> StatusDeviceId(f),
     timestamp |-> Iso8601(tm),
     status |-> StatusOrOk(web, status),
     ip |-> IF web.net THEN get_ip(addr) ELSE "null",
     cors |-> TRUE,
     ctype |-> "application/json"]

InitStatusVars ==
    /\ stWeb = [net |-> FALSE, mqtt |-> FALSE]
    /\ stResp = NoStatusResp

\* GET /api/status handled
ApiGetStatus ==
    /\ webObj
    /\ \E tm \in ClockReadings :
           stResp' = api_get_status(stWeb, file, radioAddr, mqStatus, tm)
    /\ UNCHANGED stWeb

(***************************************************************************)
(* WebServer._handle_post_request, _parse_form_urlencoded and _url_decode  *)
(* on the characters of the body and of the settings file.                 *)
(***************************************************************************)
MaxFormLen == 5

HexChars ==
    <<"0", "1", "2", "3", "4", "5", "6", "7", "8", "9", "a", "b", "c", "d", "e", "f">>

IsHexChar(c) == \E i \in 1..16 : HexChars[i] = LowerChar(c)

HexVal(c) == (CHOOSE i \in 1..16 : HexChars[i] = LowerChar(c)) - 1

\* int(hex_value, 16) on two characters: -1 stands for ValueError; int() strips
\* white space around the digits
HexPairVal(a, b) ==
    IF IsHexChar(a) /\ IsHexChar(b) THEN 16 * HexVal(a) + HexVal(b)
    ELSE IF a \in Whitespace /\ IsHexChar(b) THEN HexVal(b)
    ELSE IF IsHexChar(a) /\ b \in Whitespace THEN HexVal(a)
    ELSE -1

\* chr(n), on the code points the bodies drawn here can name
Chr(n) ==
    CASE n = 34 -> QUOTE
      [] n = 32 -> " "
      [] n = 2 -> "\\x02"
      [] n = 38 -> "&"
      [] OTHER -> "\\x??"

PlusToSpace(value) == [i \in 1..Len(value) |-> IF value[i] = "+" THEN " " ELSE value[i]]

\* the while loop of _url_decode: "%" followed by two more characters that
\* int(.., 16) accepts becomes one character, anything else is copied
RECURSIVE Unquote(_)
Unquote(v) ==
    IF v = <<>> THEN <<>>
    ELSE IF v[1] = "%" /\ Len(v) > 2 /\ HexPairVal(v[2], v[3]) >= 0
    THEN <<Chr(HexPairVal(v[2], v[3]))>> \o Unquote(SubSeq(v, 4, Len(v)))
    ELSE <<v[1]>> \o Unquote(Tail(v))

url_decode(value) == Unquote(PlusToSpace(value))

\* the for loop of _parse_form_urlencoded over body.split("&")
RECURSIVE ParsePairs(_, _)
ParsePairs(pairs, result) ==
    IF pairs = <<>> THEN result
    ELSE LET pair == Head(pairs)
             eq == IndexOf(pair, "=")
         IN IF pair = <<>> THEN ParsePairs(Tail(pairs), result)
            ELSE IF Contains(pair, "=")
            THEN ParsePairs(Tail(pairs),
                     DictSet(result, url_decode(SubSeq(pair, 1, eq - 1)),
                             StrV(url_decode(SubSeq(pair, eq + 1, Len(pair))))))
            ELSE ParsePairs(Tail(pairs), DictSet(result, url_decode(pair), StrV(<<>>)))

parse_form_urlencoded(body) == ParsePairs(SplitOn(body, "&"), <<>>)

NoFormOut == [ret |-> "none", updates |-> <<>>, wrote |-> FALSE]

\* _handle_post_request with the form content type: 400 on no updates; else
\* load (an absent file raises out of the handler), update, save_settings
handle_post_request(f, body) ==
    LET updates == parse_form_urlencoded(body)
    IN IF updates = <<>>
       THEN [out |-> [ret |-> "400", updates |-> updates, wrote |-> FALSE], file |-> f]
       ELSE IF ~f.exists
       THEN [out |-> [ret |-> "raise", updates |-> updates, wrote |-> FALSE], file |-> f]
       ELSE [out |-> [ret |-> "saved", updates |-> updates, wrote |-> TRUE],
             file |-> [exists |-> TRUE,
                       content |-> dump_toml(DictUpdate(parse_minimal_toml(f.content),
                                                        updates))]]

FormAlphabet == {"k", "=", "&", "+", "%", "2"}

FormBodies == StringsOver(FormAlphabet, MaxFormLen)

FormFiles ==
    {[exists |-> FALSE, content |-> <<>>], [exists |-> TRUE, content |-> <<>>]}
    \cup {[exists |-> TRUE, content |-> dump_toml(d)] :
              d \in {<<<<<<"k">>, StrV(<<"v">>)>>>>,
                     <<<<<<"w">>, IntV(7)>>, <<<<"k">>, StrV(<<"v">>)>>>>}}

InitFormVars ==
    /\ formPc = "off"
    /\ formBody = <<>>
    /\ formBefore = [exists |-> FALSE, content |-> <<>>]
    /\ formFile = [exists |-> FALSE, content |-> <<>>]
    /\ formOut = NoFormOut

\* POST / with Content-Type application/x-www-form-urlencoded
FormPost ==
    /\ formPc = "input"
    /\ formPc' = "done"
    /\ formOut' = handle_post_request(formFile, formBody).out
    /\ formFile' = handle_post_request(formFile, formBody).file
    /\ UNCHANGED <<formBody, formBefore>>

(***************************************************************************)
(* WebServer.poll on one accepted connection, one client.recv at a time.   *)
(* The peer decides what each recv delivers.                               *)
(***************************************************************************)
header_attempts == 50

recv_size == 1024

MaxContentLength == 120

Min(a, b) == IF a < b THEN a ELSE b

Max(a, b) == IF a > b THEN a ELSE b

StageNames == <<"Accept", "ReadHeaders", "ReadBody", "Dispatch", "WriteResponse", "Close">>

NoAsk == [size |-> 0, remaining |-> 0]

InitPollVars ==
    /\ pollPc = "off"
    /\ pollReq = [method |-> "GET", content_length |-> 0]
    /\ pollHeaderEnd = FALSE
    /\ pollToRead = 0
    /\ pollTries = 0
    /\ pollRecvs = 0
    /\ pollAsk = NoAsk
    /\ pollStages = <<>>
    /\ pollCloses = 0

\* client, _ = self._listener.accept()
PollAccepted ==
    /\ pollPc = "accept"
    /\ pollPc' = "headers"
    /\ pollStages' = <<"Accept", "ReadHeaders">>
    /\ UNCHANGED <<pollReq, pollHeaderEnd, pollToRead, pollTries, pollRecvs, pollAsk,
                   pollCloses>>

\* one iteration of "for _ in range(50)": recv raises or returns nothing (the
\* loop is left), returns bytes without the header terminator (the loop goes on
\* while iterations remain), or completes the header
PollRecvHeader ==
    /\ pollPc = "headers"
    /\ pollTries < header_attempts
    /\ pollRecvs' = pollRecvs + 1
    /\ pollTries' = pollTries + 1
    /\ \E chunk \in {"raise", "empty", "partial", "terminator"} :
           /\ pollHeaderEnd' = (chunk = "terminator")
           /\ pollPc' = (IF chunk = "partial" /\ pollTries + 1 < header_attempts
                         THEN "headers" ELSE "parse")
    /\ UNCHANGED <<pollReq, pollToRead, pollAsk, pollStages, pollCloses>>

\* lines 678-693: the body is read when the header ended, the method is POST
\* or PUT and Content-Length is positive; have is the count of body bytes that
\* came with the header
PollParse ==
    /\ pollPc = "parse"
    /\ \E have \in {0, 1, Max(0, pollReq.content_length)} :
           LET wanted == pollHeaderEnd /\ pollReq.content_length > 0
                             /\ pollReq.method \in {"POST", "PUT"}
               rest == pollReq.content_length - Max(0, have)
           IN IF wanted /\ rest > 0
              THEN /\ pollToRead' = rest
                   /\ pollPc' = "body"
                   /\ pollStages' = Append(pollStages, "ReadBody")
              ELSE /\ pollToRead' = 0
                   /\ pollPc' = "dispatch"
                   /\ UNCHANGED pollStages
    /\ UNCHANGED <<pollReq, pollHeaderEnd, pollTries, pollRecvs, pollAsk, pollCloses>>

\* one iteration of "while to_read > 0": recv(min(1024, to_read)) raises or
\* returns nothing (the loop is left), or returns one byte or all it was asked
PollRecvBody ==
    /\ pollPc = "body"
    /\ pollToRead > 0
    /\ pollRecvs' = pollRecvs + 1
    /\ pollAsk' = [size |-> Min(recv_size, pollToRead), remaining |-> pollToRead]
    /\ \E n \in {0, 1, Min(recv_size, pollToRead)} :
           /\ pollToRead' = pollToRead - n
           /\ pollPc' = (IF n = 0 \/ pollToRead - n = 0 THEN "dispatch" ELSE "body")
    /\ UNCHANGED <<pollReq, pollHeaderEnd, pollTries, pollStages, pollCloses>>

\* response = self._handle_request(...): a response, an exception, or, from
\* save_settings() under a POST whose body came in, microcontroller.reset()
PollDispatch ==
    /\ pollPc = "dispatch"
    /\ \E outcome \in {"response", "raise"}
                       \cup (IF pollReq.method = "POST" /\ pollHeaderEnd
                             THEN {"reset"} ELSE {}) :
           /\ pollPc' = (CASE outcome = "response" -> "send"
                           [] outcome = "raise" -> "close"
                           [] OTHER -> "reset")
    /\ pollStages' = Append(pollStages, "Dispatch")
    /\ UNCHANGED <<pollReq, pollHeaderEnd, pollToRead, pollTries, pollRecvs, pollAsk,
                   pollCloses>>

\* the send loop, to its end or until send raises or returns 0
PollWrite ==
    /\ pollPc = "send"
    /\ pollPc' = "close"
    /\ pollStages' = Append(pollStages, "WriteResponse")
    /\ UNCHANGED <<pollReq, pollHeaderEnd, pollToRead, pollTries, pollRecvs, pollAsk,
                   pollCloses>>

\* finally: client.close()
PollFinally ==
    /\ pollPc = "close"
    /\ pollPc' = "returned"
    /\ pollCloses' = pollCloses + 1
    /\ pollStages' = Append(pollStages, "Close")
    /\ UNCHANGED <<pollReq, pollHeaderEnd, pollToRead, pollTries, pollRecvs, pollAsk>>

(***************************************************************************)
(* WebServer.poll with the text of the body: what the handlers do with a   *)
(* request of which only a part arrived.  The peer means to send cutReq;   *)
(* each recv delivers some more of it, or nothing (timeout, error, peer    *)
(* gone), and then poll() dispatches what is in buf.                       *)
(***************************************************************************)
NoCutOut == [ret |-> "none", wrote |-> FALSE, reset |-> FALSE]

InitCutVars ==
    /\ cutPc = "off"
    /\ cutReq = [method |-> "GET", body |-> <<>>]
    /\ cutHeaderEnd = FALSE
    /\ cutGot = 0
    /\ cutBefore = [exists |-> FALSE, content |-> <<>>]
    /\ cutFile = [exists |-> FALSE, content |-> <<>>]
    /\ cutOut = NoCutOut

\* json.loads(text) on the texts drawn here: white space around the value is
\* skipped; an object with the one member "k" and an integer value, the empty
\* object, or an integer alone; anything else raises
json_loads(text) ==
    LET t == Strip(text)
        open == <<"{", QUOTE, "k", QUOTE, ":">>
    IN IF t = <<"{", "}">> THEN [ret |-> "dict", data |-> <<>>]
       ELSE IF IsIntToken(t) THEN [ret |-> "int", data |-> <<>>]
       ELSE IF /\ Len(t) > Len(open) + 1
               /\ SubSeq(t, 1, Len(open)) = open
               /\ t[Len(t)] = "}"
               /\ AllDigits(SubSeq(t, Len(open) + 1, Len(t) - 1))
       THEN [ret |-> "dict",
             data |-> <<<<<<"k">>, IntV(NatVal(SubSeq(t, Len(open) + 1, Len(t) - 1)))>>>>]
       ELSE [ret |-> "raise", data |-> <<>>]

\* _api_put_config with Content-Type application/json, on a writable file
\* system: an empty body stands for {}; 400 on invalid JSON, on a value that is
\* no object and on an object without members; else load (an absent file gives
\* 500), update, write the file, self._pending_reset = True, 202
api_put_config_text(f, body) ==
    LET r == IF body = <<>> THEN [ret |-> "dict", data |-> <<>>] ELSE json_loads(body)
    IN IF r.ret # "dict" \/ r.data = <<>>
       THEN [out |-> [ret |-> "400", wrote |-> FALSE, reset |-> FALSE], file |-> f]
       ELSE IF ~f.exists
       THEN [out |-> [ret |-> "500", wrote |-> FALSE, reset |-> FALSE], file |-> f]
       ELSE [out |-> [ret |-> "202", wrote |-> TRUE, reset |-> TRUE],
             file |-> [exists |-> TRUE,
                       content |-> dump_toml(DictUpdate(parse_minimal_toml(f.content),
                                                        r.data))]]

\* _handle_request: the lines after the blank line, joined with "\n", and
\* body.rstrip("\n"); the bodies drawn here hold no "\r\n"
RECURSIVE body_of(_)
body_of(received) ==
    IF received # <<>> /\ received[Len(received)] = NEWLINE
    THEN body_of(SubSeq(received, 1, Len(received) - 1))
    ELSE received

\* the header loop: it ends without the terminator (recv raised, returned
\* nothing, or 50 chunks went by), or with it, and then have characters of the
\* body came in the same chunk; lines 691-693 decide whether more is read
CutRecvHeader ==
    /\ cutPc = "headers"
    /\ \E found \in BOOLEAN, have \in 0..Len(cutReq.body) :
           /\ (~found => have = 0)
           /\ cutHeaderEnd' = found
           /\ cutGot' = have
           /\ cutPc' = (IF found /\ Len(cutReq.body) > 0
                              /\ cutReq.method \in {"POST", "PUT"}
                              /\ Len(cutReq.body) - have > 0
                        THEN "body" ELSE "dispatch")
    /\ UNCHANGED <<cutReq, cutBefore, cutFile, cutOut>>

\* one iteration of "while to_read > 0": recv raises or returns nothing (the
\* loop is left with what is in buf), or returns up to to_read characters
CutRecvBody ==
    /\ cutPc = "body"
    /\ \E n \in 0..(Len(cutReq.body) - cutGot) :
           /\ cutGot' = cutGot + n
           /\ cutPc' = (IF n = 0 \/ cutGot + n = Len(cutReq.body)
                        THEN "dispatch" ELSE "body")
    /\ UNCHANGED <<cutReq, cutHeaderEnd, cutBefore, cutFile, cutOut>>

\* response = self._handle_request(data): without the header terminator no
\* line follows a blank line, body is "" and both handlers answer 400; with it
\* the handler gets what arrived of the body.  save_settings() resets after it
\* wrote; the PUT handler leaves the reset to poll()'s finally block.
CutDispatch ==
    /\ cutPc = "dispatch"
    /\ LET body == IF cutHeaderEnd THEN body_of(SubSeq(cutReq.body, 1, cutGot)) ELSE <<>>
           post == handle_post_request(cutFile, body)
           put == api_put_config_text(cutFile, body)
       IN IF cutReq.method = "POST"
          THEN /\ cutOut' = [ret |-> post.out.ret, wrote |-> post.out.wrote,
                             reset |-> post.out.wrote]
               /\ cutFile' = post.file
               /\ cutPc' = (IF post.out.wrote THEN "reset" ELSE "done")
          ELSE /\ cutOut' = put.out
               /\ cutFile' = put.file
               /\ cutPc' = (IF put.out.reset THEN "reset" ELSE "done")
    /\ UNCHANGED <<cutReq, cutHeaderEnd, cutGot, cutBefore>>

(***************************************************************************)
(* GET / renders one text input per setting; a browser submits the form as *)
(* it was rendered; POST / stores what comes back.                         *)
(***************************************************************************)
\* str(value) of a setting: a str as it is, True/False, the digits of a number
py_str(v) ==
    CASE v.t = "str" -> v.s
      [] v.t = "bool" -> IF v.n = 1 THEN <<"T", "r", "u", "e">>
                         ELSE <<"F", "a", "l", "s", "e">>
      [] v.t = "int" -> IntStr(v.n)
      [] v.t = "float" -> FloatStr(v.n, v.e)

\* .replace("&", "&amp;").replace("<", "&lt;").replace(">", "&gt;")
\* .replace('"', "&quot;")
RECURSIVE html_escape(_)
html_escape(s) ==
    IF s = <<>> THEN <<>>
    ELSE (CASE Head(s) = "&" -> <<"&", "a", "m", "p", ";">>
            [] Head(s) = "<" -> <<"&", "l", "t", ";">>
            [] Head(s) = ">" -> <<"&", "g", "t", ";">>
            [] Head(s) = QUOTE -> <<"&", "q", "u", "o", "t", ";">>
            [] OTHER -> <<Head(s)>>)
         \o html_escape(Tail(s))

\* the rows of _handle_get_request: name='{key}' value="{escaped_value}"
render_form(settings) ==
    [i \in 1..Len(settings) |->
        [name |-> settings[i][1], value |-> html_escape(py_str(settings[i][2]))]]

StartsWith(s, prefix) == Len(s) >= Len(prefix) /\ SubSeq(s, 1, Len(prefix)) = prefix

\* the browser reading an attribute value: character references resolved
RECURSIVE html_unescape(_)
html_unescape(s) ==
    IF s = <<>> THEN <<>>
    ELSE IF StartsWith(s, <<"&", "a", "m", "p", ";">>)
    THEN <<"&">> \o html_unescape(SubSeq(s, 6, Len(s)))
    ELSE IF StartsWith(s, <<"&", "l", "t", ";">>)
    THEN <<"<">> \o html_unescape(SubSeq(s, 5, Len(s)))
    ELSE IF StartsWith(s, <<"&", "g", "t", ";">>)
    THEN <<">">> \o html_unescape(SubSeq(s, 5, Len(s)))
    ELSE IF StartsWith(s, <<"&", "q", "u", "o", "t", ";">>)
    THEN <<QUOTE>> \o html_unescape(SubSeq(s, 7, Len(s)))
    ELSE <<Head(s)>> \o html_unescape(Tail(s))

\* the browser serializing a field as application/x-www-form-urlencoded, on
\* the characters the settings drawn here hold: a space becomes "+", "&"
\* becomes %26, letters, digits, ".", "-" and "_" go as they are
RECURSIVE form_urlencode(_)
form_urlencode(s) ==
    IF s = <<>> THEN <<>>
    ELSE (CASE Head(s) = " " -> <<"+">>
            [] Head(s) = "&" -> <<"%", "2", "6">>
            [] OTHER -> <<Head(s)>>)
         \o form_urlencode(Tail(s))

\* the body of the submitted form: name=value pairs in the order of the
\* inputs, joined with "&"
RECURSIVE browser_submit(_)
browser_submit(rows) ==
    IF rows = <<>> THEN <<>>
    ELSE form_urlencode(Head(rows).name) \o <<"=">>
         \o form_urlencode(html_unescape(Head(rows).value))
         \o (IF Len(rows) > 1 THEN <<"&">> \o browser_submit(Tail(rows)) ELSE <<>>)

InitRoundVars ==
    /\ rtPc = "off"
    /\ rtBefore = [exists |-> FALSE, content |-> <<>>]
    /\ rtFile = [exists |-> FALSE, content |-> <<>>]
    /\ rtBody = <<>>
    /\ rtOut = NoFormOut

\* GET /: load_settings() raising gives the empty form; the browser then
\* builds the body of the POST from the inputs as rendered
RoundGet ==
    /\ rtPc = "get"
    /\ rtPc' = "post"
    /\ LET settings == IF rtFile.exists THEN parse_minimal_toml(rtFile.content) ELSE <<>>
       IN rtBody' = browser_submit(render_form(settings))
    /\ UNCHANGED <<rtBefore, rtFile, rtOut>>

\* POST / with that body
RoundPost ==
    /\ rtPc = "post"
    /\ rtPc' = "done"
    /\ rtOut' = handle_post_request(rtFile, rtBody).out
    /\ rtFile' = handle_post_request(rtFile, rtBody).file
    /\ UNCHANGED <<rtBefore, rtBody>>

(***************************************************************************)
(* Startup, step 1: cfg.load_settings() on the file as found, and the       *)
(* defaults the module falls back to when the call raises.                  *)
(***************************************************************************)
MaxLines == 3

NoLoad == [ret |-> "none", settings |-> <<>>]

\* a stripped line that is neither blank, nor a comment, nor has an "="
IsStrayLine(raw) ==
    LET line == Strip(raw)
    IN line # <<>> /\ Head(line) # "#" /\ ~Contains(line, "=")

IsAssignment(raw) ==
    LET line == Strip(raw)
    IN line # <<>> /\ Head(line) # "#" /\ Contains(line, "=")

\* _toml_reader.loads(): tomllib rejects a line that is neither blank, a comment
\* nor key = value, and a key defined twice; on the documents drawn here it reads
\* the values as the minimal parser does
toml_reader_loads(content) ==
    LET lines == SplitLines(content)
        parsed == parse_minimal_toml(content)
        assignments == Cardinality({i \in 1..Len(lines) : IsAssignment(lines[i])})
    IN IF (\E i \in 1..Len(lines) : IsStrayLine(lines[i])) \/ assignments # Len(parsed)
       THEN [ret |-> "TOMLDecodeError", settings |-> <<>>]
       ELSE [ret |-> "dict", settings |-> parsed]

\* ConfigManager.load_settings() on the file itself: open() raising OSError is
\* turned into FileNotFoundError; whatever the parser returns is a dict
load_settings_text(f, reader) ==
    IF ~f.exists THEN [ret |-> "FileNotFoundError", settings |-> <<>>]
    ELSE IF reader THEN toml_reader_loads(f.content)
    ELSE [ret |-> "dict", settings |-> parse_minimal_toml(f.content)]

\* the dict of the except branch
startup_defaults ==
    <<
      <<<<"w", "i", "f", "i", "_", "s", "s", "i", "d">>,
        StrV(<<>>)>>,
      <<<<"w", "i", "f", "i", "_", "p", "a", "s", "s", "w", "o", "r", "d">>,
        StrV(<<>>)>>,
      <<<<"b", "r", "o", "k", "e", "r", "_", "a", "d", "d", "r", "e", "s", "s">>,
        StrV(<<>>)>>,
      <<<<"b", "r", "o", "k", "e", "r", "_", "p", "o", "r", "t">>,
        IntV(1883)>>,
      <<<<"t", "e", "l", "e", "m", "e", "t", "r", "y", "_", "t", "o", "p", "i", "c">>,
        StrV(<<>>)>>,
      <<<<"s", "t", "a", "t", "u", "s", "_", "t", "o", "p", "i", "c">>,
        StrV(<<>>)>>,
      <<<<"m", "q", "t", "t", "_", "u", "s", "e", "r", "n", "a", "m", "e">>,
        StrV(<<>>)>>,
      <<<<"m", "q", "t", "t", "_", "p", "a", "s", "s", "w", "o", "r", "d">>,
        StrV(<<>>)>>,
      <<<<"m", "q", "t", "t", "_", "k", "e", "e", "p", "a", "l", "i", "v", "e">>,
        IntV(60)>>,
      <<<<"m", "q", "t", "t", "_", "u", "s", "e", "_", "s", "s", "l">>,
        BoolV(FALSE)>>,
      <<<<"s", "e", "n", "s", "o", "r", "_", "p", "i", "n">>,
        IntV(9)>>,
      <<<<"s", "e", "n", "s", "o", "r", "_", "t", "y", "p", "e">>,
        StrV(<<"D", "H", "T", "1", "1">>)>>,
      <<<<"r", "e", "a", "d", "i", "n", "g", "_", "i", "n", "t", "e", "r", "v", "a", "l", "_", "s", "e", "c", "o", "n", "d", "s">>,
        IntV(2)>>
    >>

ConfigLines ==
    {<<>>,
     <<"#", " ", "c">>,
     <<"k", "=", "1">>,
     <<"j", "u", "n", "k">>,
     <<"w", "i", "f", "i", "_", "s", "s", "i", "d", " ", "=", " ", "\"", "a", "\"">>}

RECURSIVE JoinLines(_)
JoinLines(ls) ==
    IF ls = <<>> THEN <<>>
    ELSE IF Len(ls) = 1 THEN ls[1]
    ELSE ls[1] \o <<NEWLINE>> \o JoinLines(Tail(ls))

ConfigTexts ==
    {JoinLines(ls) : ls \in UNION {[1..n -> ConfigLines] : n \in 0..MaxLines}}

ConfigFiles ==
    {[exists |-> FALSE, content |-> <<>>]}
    \cup {[exists |-> TRUE, content |-> t] : t \in ConfigTexts}

InitLoadVars ==
    /\ tomlReaderPresent = FALSE
    /\ cfgFile = [exists |-> FALSE, content |-> <<>>]
    /\ loadPc = "loaded"
    /\ loadCall = NoLoad
    /\ bootSettings = startup_defaults

\* try: settings = cfg.load_settings()  except Exception: settings = {defaults}
StartupLoad ==
    /\ loadPc = "start"
    /\ LET r == load_settings_text(cfgFile, tomlReaderPresent)
       IN /\ loadCall' = r
          /\ bootSettings' = (IF r.ret = "dict" THEN r.settings ELSE startup_defaults)
    /\ loadPc' = "loaded"
    /\ UNCHANGED <<tomlReaderPresent, cfgFile>>

InitTomlVars ==
    /\ tomlPc = "idle"
    /\ tomlDoc = <<>>
    /\ tomlFirst = <<>>
    /\ tomlParsed = <<>>
    /\ tomlSecond = <<>>

InitToml ==
    /\ tomlPc = "input"
    /\ tomlDoc \in TomlDocs
    /\ tomlFirst = <<>>
    /\ tomlParsed = <<>>
    /\ tomlSecond = <<>>
    /\ wifiPresent = TRUE
    /\ socketpoolPresent = TRUE
    /\ InitNetVars
    /\ InitBootVars
    /\ InitSensorVars
    /\ InitLoopVars
    /\ InitHttpVars
    /\ InitApiVars
    /\ InitMqttVars
    /\ InitRspVars
    /\ poolStale = FALSE
    /\ InitLoadVars
    /\ InitStatusVars
    /\ InitFormVars
    /\ InitStartVars
    /\ InitPollVars
    /\ InitCutVars
    /\ InitRoundVars

\* save, load, save again: _dump_toml, _parse_minimal_toml, _dump_toml
TomlRoundTrip ==
    /\ tomlPc = "input"
    /\ tomlPc' = "done"
    /\ tomlFirst' = dump_toml(tomlDoc)
    /\ tomlParsed' = parse_minimal_toml(tomlFirst')
    /\ tomlSecond' = dump_toml(tomlParsed')
    /\ UNCHANGED tomlDoc

NextToml == TomlRoundTrip /\ UNCHANGED <<buildVars, netVars, bootVars, sensorVars, loopVars, httpVars, apiVars, mqttVars, rspVars, linkVars, loadVars, statusVars, formVars, startVars, pollVars, cutVars, roundVars>>

SpecToml == InitToml /\ [][NextToml]_vars

(***************************************************************************)
(* SpecNet: NetworkManager called in any order, with link loss.            *)
(***************************************************************************)
InitNet ==
    InitTomlVars /\ InitBuild /\ InitNetVars /\ InitBootVars /\ InitSensorVars /\ InitLoopVars
    /\ InitHttpVars
    /\ InitApiVars
    /\ InitMqttVars
    /\ InitRspVars
    /\ poolStale = FALSE
    /\ InitLoadVars
    /\ InitStatusVars
    /\ InitFormVars
    /\ InitStartVars
    /\ InitPollVars
    /\ InitCutVars
    /\ InitRoundVars

NextNet ==
    \/ NetConnect /\ UNCHANGED <<tomlVars, buildVars, bootVars, sensorVars, loopVars, httpVars, apiVars, mqttVars, rspVars, loadVars, statusVars, formVars, startVars, pollVars, cutVars, roundVars>>
    \/ NetGetSocketPool /\ UNCHANGED <<tomlVars, buildVars, bootVars, sensorVars, loopVars, httpVars, apiVars, mqttVars, rspVars, loadVars, statusVars, formVars, startVars, pollVars, cutVars, roundVars>>
    \/ LinkLoss /\ UNCHANGED <<tomlVars, buildVars, bootVars, sensorVars, loopVars, httpVars, apiVars, mqttVars, rspVars, loadVars, statusVars, formVars, startVars, pollVars, cutVars, roundVars>>
    \/ LinkRecovery /\ UNCHANGED <<tomlVars, buildVars, bootVars, sensorVars, loopVars, httpVars, apiVars, mqttVars, rspVars, loadVars, statusVars, formVars, startVars, pollVars, cutVars, roundVars>>

SpecNet == InitNet /\ [][NextNet]_vars

(***************************************************************************)
(* SpecBoot: the startup sequence for every configuration and build, with  *)
(* the link free to drop between the steps.                                *)
(***************************************************************************)
InitBoot ==
    /\ InitTomlVars
    /\ InitBuild
    /\ InitNetVars
    /\ bootPc = "wifi"
    /\ ssidSet \in BOOLEAN
    /\ brokerSet \in BOOLEAN
    /\ ntpPresent \in BOOLEAN
    /\ mqttLibPresent \in BOOLEAN
    /\ netObj = FALSE
    /\ mqttObj = FALSE
    /\ webObj = FALSE
    /\ mqttPool = 0
    /\ webPool = 0
    /\ factoryLog = {}
    /\ InitSensorVars
    /\ InitLoopVars
    /\ InitHttpVars
    /\ InitApiVars
    /\ InitMqttVars
    /\ InitRspVars
    /\ poolStale = FALSE
    /\ InitLoadVars
    /\ InitStatusVars
    /\ InitFormVars
    /\ bootCfg \in [dhtLib : BOOLEAN, typeIsStr : BOOLEAN, pinResolves : BOOLEAN,
                    intervalIsNumber : BOOLEAN]
    /\ bootSensor = "none"
    /\ InitPollVars
    /\ InitCutVars
    /\ InitRoundVars

NextBoot ==
    \/ BootWifi /\ UNCHANGED <<tomlVars, buildVars, sensorVars, loopVars, httpVars, apiVars, mqttVars, rspVars, linkVars, loadVars, statusVars, formVars, startVars, pollVars, cutVars, roundVars>>
    \/ BootMqtt /\ UNCHANGED <<tomlVars, buildVars, sensorVars, loopVars, httpVars, apiVars, mqttVars, rspVars, linkVars, loadVars, statusVars, formVars, startVars, pollVars, cutVars, roundVars>>
    \/ BootWeb /\ UNCHANGED <<tomlVars, buildVars, sensorVars, loopVars, httpVars, apiVars, mqttVars, rspVars, linkVars, loadVars, statusVars, formVars, startVars, pollVars, cutVars, roundVars>>
    \/ BootSensor /\ UNCHANGED <<tomlVars, buildVars, netVars, sensorVars, loopVars, httpVars, apiVars, mqttVars, rspVars, linkVars, loadVars, statusVars, formVars, pollVars, cutVars, roundVars>>
    \/ BootInterval /\ UNCHANGED <<tomlVars, buildVars, netVars, sensorVars, loopVars, httpVars, apiVars, mqttVars, rspVars, linkVars, loadVars, statusVars, formVars, pollVars, cutVars, roundVars>>
    \/ bootPc \notin {"loop", "crashed"} /\ LinkLoss /\ UNCHANGED <<tomlVars, buildVars, bootVars, sensorVars, loopVars, httpVars, apiVars, mqttVars, rspVars, loadVars, statusVars, formVars, startVars, pollVars, cutVars, roundVars>>

SpecBoot == InitBoot /\ [][NextBoot]_vars

(***************************************************************************)
(* SpecSensor: read_data() called at any time, the clock advancing between *)
(* the calls.                                                              *)
(***************************************************************************)
InitSensor ==
    /\ InitTomlVars
    /\ wifiPresent = TRUE
    /\ socketpoolPresent = TRUE
    /\ InitNetVars
    /\ InitBootVars
    /\ now \in 0..2
    /\ sensorReady \in BOOLEAN
    /\ sensorLastRead = 0
    /\ sensorLastError = 0
    /\ prevReadAt = -1
    /\ lastReadAt = -1
    /\ sensorCall = NoRead
    /\ InitLoopVars
    /\ InitHttpVars
    /\ InitApiVars
    /\ InitMqttVars
    /\ InitRspVars
    /\ poolStale = FALSE
    /\ InitLoadVars
    /\ InitStatusVars
    /\ InitFormVars
    /\ InitStartVars
    /\ InitPollVars
    /\ InitCutVars
    /\ InitRoundVars

NextSensor ==
    \/ SensorRead /\ UNCHANGED <<tomlVars, buildVars, netVars, bootVars, loopVars, httpVars, apiVars, mqttVars, rspVars, linkVars, loadVars, statusVars, formVars, startVars, pollVars, cutVars, roundVars>>
    \/ ClockTick /\ UNCHANGED <<tomlVars, buildVars, netVars, bootVars, loopVars, httpVars, apiVars, mqttVars, rspVars, linkVars, loadVars, statusVars, formVars, startVars, pollVars, cutVars, roundVars>>

SpecSensor == InitSensor /\ [][NextSensor]_vars

(***************************************************************************)
(* SpecLoop: the main loop for every combination of subsystems present.    *)
(* The loop is the only thread and each of its steps returns (bounded      *)
(* sleeps, bounded socket timeouts), so a step that can be taken is taken. *)
(***************************************************************************)
InitLoop ==
    /\ InitTomlVars
    /\ wifiPresent = TRUE
    /\ socketpoolPresent = TRUE
    /\ InitNetVars
    /\ InitBootVars
    /\ now = 0
    /\ sensorReady \in BOOLEAN
    /\ sensorLastRead = 0
    /\ sensorLastError = 0
    /\ prevReadAt = -1
    /\ lastReadAt = -1
    /\ sensorCall = NoRead
    /\ loopPc = "mqtt_loop"
    /\ loopMqtt \in BOOLEAN
    /\ loopWeb \in BOOLEAN
    /\ topicSet \in BOOLEAN
    /\ quantityTopics \in SUBSET Quantities
    /\ tickParity = 0
    /\ tickLog = <<>>
    /\ InitHttpVars
    /\ InitApiVars
    /\ InitMqttVars
    /\ InitRspVars
    /\ poolStale = FALSE
    /\ InitLoadVars
    /\ InitStatusVars
    /\ InitFormVars
    /\ InitStartVars
    /\ InitPollVars
    /\ InitCutVars
    /\ InitRoundVars

NextLoop ==
    \/ LoopMqtt /\ UNCHANGED <<tomlVars, buildVars, netVars, bootVars, sensorVars, httpVars, apiVars, mqttVars, rspVars, linkVars, loadVars, statusVars, formVars, startVars, pollVars, cutVars, roundVars>>
    \/ LoopWeb /\ UNCHANGED <<tomlVars, buildVars, netVars, bootVars, sensorVars, httpVars, apiVars, mqttVars, rspVars, linkVars, loadVars, statusVars, formVars, startVars, pollVars, cutVars, roundVars>>
    \/ LoopInterval /\ UNCHANGED <<tomlVars, buildVars, netVars, bootVars, sensorVars, httpVars, apiVars, mqttVars, rspVars, linkVars, loadVars, statusVars, formVars, startVars, pollVars, cutVars, roundVars>>
    \/ LoopRead /\ UNCHANGED <<tomlVars, buildVars, netVars, bootVars, httpVars, apiVars, mqttVars, rspVars, linkVars, loadVars, statusVars, formVars, startVars, pollVars, cutVars, roundVars>>
    \/ LoopPublish /\ UNCHANGED <<tomlVars, buildVars, netVars, bootVars, sensorVars, httpVars, apiVars, mqttVars, rspVars, linkVars, loadVars, statusVars, formVars, startVars, pollVars, cutVars, roundVars>>
    \/ LoopSleep /\ UNCHANGED <<tomlVars, buildVars, netVars, bootVars, sensorVars, httpVars, apiVars, mqttVars, rspVars, linkVars, loadVars, statusVars, formVars, startVars, pollVars, cutVars, roundVars>>
    \/ LoopExcept /\ UNCHANGED <<tomlVars, buildVars, netVars, bootVars, sensorVars, httpVars, apiVars, mqttVars, rspVars, linkVars, loadVars, statusVars, formVars, startVars, pollVars, cutVars, roundVars>>

SpecLoop == InitLoop /\ [][NextLoop]_vars /\ WF_vars(NextLoop)

(***************************************************************************)
(* SpecHttp: poll() serving one connection after another, for every        *)
(* request, every storage state and every transport outcome.               *)
(***************************************************************************)
InitHttp ==
    /\ InitTomlVars
    /\ wifiPresent = TRUE
    /\ socketpoolPresent = TRUE
    /\ InitNetVars
    /\ InitBootVars
    /\ InitSensorVars
    /\ InitLoopVars
    /\ microPresent \in BOOLEAN
    /\ fsReadOnly \in BOOLEAN
    /\ file \in {DocFile(d) : d \in [HKeySet -> HVals]}
                \cup {[kind |-> "absent", doc |-> NoDoc]}
    /\ fileBefore = file
    /\ httpPc = "idle"
    /\ req = EmptyData
    /\ resp = NoResponse
    /\ saveDoc = NoDoc
    /\ pendingReset = FALSE
    /\ webLastError = FALSE
    /\ connLog = <<>>
    /\ InitApiVars
    /\ InitMqttVars
    /\ InitRspVars
    /\ poolStale = FALSE
    /\ InitLoadVars
    /\ InitStatusVars
    /\ InitFormVars
    /\ InitStartVars
    /\ InitPollVars
    /\ InitCutVars
    /\ InitRoundVars

OtherThanHttp == <<tomlVars, buildVars, netVars, bootVars, sensorVars, loopVars, apiVars,
                   mqttVars, rspVars, linkVars, loadVars, statusVars, formVars, startVars, pollVars, cutVars, roundVars>>

NextHttp ==
    \/ PollAccept /\ UNCHANGED OtherThanHttp
    \/ PollRecv /\ UNCHANGED OtherThanHttp
    \/ Dispatch /\ UNCHANGED OtherThanHttp
    \/ SaveOpen /\ UNCHANGED OtherThanHttp
    \/ SaveWrite /\ UNCHANGED OtherThanHttp
    \/ PollSend /\ UNCHANGED OtherThanHttp
    \/ PollClose /\ UNCHANGED OtherThanHttp
    \/ Crash /\ UNCHANGED OtherThanHttp

SpecHttp == InitHttp /\ [][NextHttp]_vars

(***************************************************************************)
(* SpecApi: GET, PUT, GET, the same PUT, GET on /api/config, for every     *)
(* settings file written from a two-key document and every one-key update. *)
(***************************************************************************)
\* the documents a settings file is written from: two keys
ApiDocs ==
    {<<<<k1, v1>>, <<k2, v2>>>> : k1 \in TomlKeys, k2 \in TomlKeys,
                                  v1 \in ApiValues, v2 \in ApiValues}

InitApi ==
    /\ InitTomlVars
    /\ wifiPresent = TRUE
    /\ socketpoolPresent = TRUE
    /\ InitNetVars
    /\ InitBootVars
    /\ InitSensorVars
    /\ InitLoopVars
    /\ InitHttpVars
    /\ apiPc = "get1"
    /\ \E d \in {x \in ApiDocs : x[1][1] # x[2][1]} : apiFile = dump_toml(d)
    /\ \E k \in TomlKeys, v \in ApiValues : apiUpd = <<<<k, v>>>>
    /\ apiGets = <<>>
    /\ apiCodes = <<>>
    /\ InitMqttVars
    /\ InitRspVars
    /\ poolStale = FALSE
    /\ InitLoadVars
    /\ InitStatusVars
    /\ InitFormVars
    /\ InitStartVars
    /\ InitPollVars
    /\ InitCutVars
    /\ InitRoundVars

OtherThanApi == <<tomlVars, buildVars, netVars, bootVars, sensorVars, loopVars, httpVars,
                  mqttVars, rspVars, linkVars, loadVars, statusVars, formVars, startVars, pollVars, cutVars, roundVars>>

NextApi ==
    \/ ApiGet /\ UNCHANGED OtherThanApi
    \/ ApiPut /\ UNCHANGED OtherThanApi

SpecApi == InitApi /\ [][NextApi]_vars

(***************************************************************************)
(* SpecMqtt: an MqttClient built from every topic configuration, with and  *)
(* without the MQTT library and a transport factory, under arbitrary calls.*)
(***************************************************************************)
InitMqtt ==
    /\ InitTomlVars
    /\ InitBuild
    /\ radioAddr \in BOOLEAN
    /\ netLastError = 0
    /\ netSocketPool = 0
    /\ netCall = NoCall
    /\ bootPc = "off"
    /\ ssidSet = FALSE
    /\ brokerSet = TRUE
    /\ ntpPresent = FALSE
    /\ mqttLibPresent \in BOOLEAN
    /\ netObj = FALSE
    /\ mqttObj = TRUE
    /\ webObj = FALSE
    /\ \E handed \in BOOLEAN :
         /\ mqttPool = (IF handed THEN 1 ELSE 0)
         /\ poolsMade = (IF handed THEN 1 ELSE 0)
    /\ webPool = 0
    /\ factoryLog = {}
    /\ InitSensorVars
    /\ InitLoopVars
    /\ InitHttpVars
    /\ InitApiVars
    /\ mqCfg \in [telemetry : BOOLEAN, temperature : BOOLEAN, humidity : BOOLEAN,
                  status : BOOLEAN]
    /\ mqClient = FALSE
    /\ mqWill = NoWill
    /\ mqSession = FALSE
    /\ mqOpens = {}
    /\ mqStatus = "offline"
    /\ mqLastError = "none"
    /\ mqPublished = "offline"
    /\ mqCall = NoMqttCall
    /\ InitRspVars
    /\ poolStale = FALSE
    /\ InitLoadVars
    /\ InitStatusVars
    /\ InitFormVars
    /\ InitStartVars
    /\ InitPollVars
    /\ InitCutVars
    /\ InitRoundVars

MqttFrame ==
    <<tomlVars, buildVars, radioAddr, netLastError, netSocketPool, netCall, bootPc,
      ssidSet, brokerSet, ntpPresent, mqttLibPresent, netObj, mqttObj, webObj, webPool,
      factoryLog, sensorVars, loopVars, httpVars, apiVars, rspVars, linkVars, loadVars, statusVars, formVars, startVars, pollVars, cutVars, roundVars>>

NextMqtt ==
    \/ MqttConnect /\ UNCHANGED MqttFrame
    \/ MqttPublishTelemetry /\ UNCHANGED MqttFrame
    \/ MqttPublishStatus /\ UNCHANGED MqttFrame
    \/ MqttSessionLoss /\ UNCHANGED MqttFrame

SpecMqtt == InitMqtt /\ [][NextMqtt]_vars

(***************************************************************************)
(* SpecResponse: _http_response on every status code the handlers use,     *)
(* every short body, every content type and every set of extra headers.    *)
(***************************************************************************)
InitResponse ==
    /\ InitTomlVars
    /\ wifiPresent = TRUE
    /\ socketpoolPresent = TRUE
    /\ InitNetVars
    /\ InitBootVars
    /\ InitSensorVars
    /\ InitLoopVars
    /\ InitHttpVars
    /\ InitApiVars
    /\ InitMqttVars
    /\ rspPc = "input"
    /\ rspIn \in [code : StatusCodes, body : Bodies,
                  ctype : {"text/plain", "application/json", "text/html"},
                  extra : {"none", "cors", "location"}]
    /\ rspOut = NoRspOut
    /\ poolStale = FALSE
    /\ InitLoadVars
    /\ InitStatusVars
    /\ InitFormVars
    /\ InitStartVars
    /\ InitPollVars
    /\ InitCutVars
    /\ InitRoundVars

NextResponse ==
    HttpRespond /\ UNCHANGED <<tomlVars, buildVars, netVars, bootVars, sensorVars,
                               loopVars, httpVars, apiVars, mqttVars, linkVars, loadVars, statusVars, formVars, startVars, pollVars, cutVars, roundVars>>

SpecResponse == InitResponse /\ [][NextResponse]_vars

(***************************************************************************)
(* SpecLoad: step 1 of startup on every settings file of up to MaxLines     *)
(* lines, absent or present, under both builds of the TOML reader.          *)
(***************************************************************************)
InitLoad ==
    /\ InitTomlVars
    /\ wifiPresent = TRUE
    /\ socketpoolPresent = TRUE
    /\ InitNetVars
    /\ InitBootVars
    /\ InitSensorVars
    /\ InitLoopVars
    /\ InitHttpVars
    /\ InitApiVars
    /\ InitMqttVars
    /\ InitRspVars
    /\ poolStale = FALSE
    /\ tomlReaderPresent \in BOOLEAN
    /\ cfgFile \in ConfigFiles
    /\ loadPc = "start"
    /\ loadCall = NoLoad
    /\ bootSettings = <<>>
    /\ InitStatusVars
    /\ InitFormVars
    /\ InitStartVars
    /\ InitPollVars
    /\ InitCutVars
    /\ InitRoundVars

NextLoad ==
    StartupLoad /\ UNCHANGED <<tomlVars, buildVars, netVars, bootVars, sensorVars,
                               loopVars, httpVars, apiVars, mqttVars, rspVars, linkVars,
                               statusVars, formVars, startVars, pollVars, cutVars, roundVars>>

SpecLoad == InitLoad /\ [][NextLoad]_vars

(***************************************************************************)
(* SpecStatus: a started WebServer as startup builds it (always with the   *)
(* NetworkManager, with the MqttClient when one was connected), the link   *)
(* coming and going and the main loop publishing statuses in between.      *)
(***************************************************************************)
StatusFiles ==
    {[kind |-> "absent", doc |-> NoDoc], [kind |-> "empty", doc |-> NoDoc]}
    \cup {DocFile(d) : d \in [HKeySet -> HVals \cup {Absent}]}

InitStatus ==
    /\ InitTomlVars
    /\ wifiPresent = TRUE
    /\ socketpoolPresent = TRUE
    /\ radioAddr \in BOOLEAN
    /\ netLastError = 0
    /\ netSocketPool = 1
    /\ poolsMade = 1
    /\ netCall = NoCall
    /\ bootPc = "loop"
    /\ ssidSet = TRUE
    /\ brokerSet \in BOOLEAN
    /\ ntpPresent = FALSE
    /\ mqttLibPresent = brokerSet
    /\ netObj = TRUE
    /\ mqttObj = brokerSet
    /\ webObj = TRUE
    /\ mqttPool = (IF brokerSet THEN 1 ELSE 0)
    /\ webPool = 1
    /\ factoryLog = {}
    /\ InitSensorVars
    /\ InitLoopVars
    /\ microPresent = TRUE
    /\ fsReadOnly = FALSE
    /\ file \in StatusFiles
    /\ fileBefore = file
    /\ httpPc = "off"
    /\ req = EmptyData
    /\ resp = NoResponse
    /\ saveDoc = NoDoc
    /\ pendingReset = FALSE
    /\ webLastError = FALSE
    /\ connLog = <<>>
    /\ InitApiVars
    /\ \E statusTopic \in BOOLEAN :
           /\ mqCfg = [telemetry |-> TRUE, temperature |-> FALSE, humidity |-> FALSE,
                       status |-> brokerSet /\ statusTopic]
           /\ mqStatus = (IF brokerSet /\ statusTopic THEN "ok" ELSE "offline")
           /\ mqPublished = mqStatus
    /\ mqClient = brokerSet
    /\ mqWill = NoWill
    /\ mqSession = brokerSet
    /\ mqOpens = {}
    /\ mqLastError = "none"
    /\ mqCall = NoMqttCall
    /\ InitRspVars
    /\ poolStale = FALSE
    /\ InitLoadVars
    /\ stWeb = [net |-> netObj, mqtt |-> mqttObj]
    /\ stResp = NoStatusResp
    /\ InitFormVars
    /\ InitStartVars
    /\ InitPollVars
    /\ InitCutVars
    /\ InitRoundVars

\* the statuses startup and the main loop publish: publish_status("ok"),
\* publish_status("error")
CallerStatuses == {"ok", "error"}

NextStatus ==
    \/ ApiGetStatus
           /\ UNCHANGED <<tomlVars, buildVars, netVars, bootVars, sensorVars, loopVars,
                          httpVars, apiVars, mqttVars, rspVars, linkVars, loadVars,
                          formVars, startVars, pollVars, cutVars, roundVars>>
    \/ LinkLoss
           /\ UNCHANGED <<tomlVars, buildVars, bootVars, sensorVars, loopVars, httpVars,
                          apiVars, mqttVars, rspVars, loadVars, statusVars, formVars, startVars, pollVars, cutVars, roundVars>>
    \/ LinkRecovery
           /\ UNCHANGED <<tomlVars, buildVars, bootVars, sensorVars, loopVars, httpVars,
                          apiVars, mqttVars, rspVars, loadVars, statusVars, formVars, startVars, pollVars, cutVars, roundVars>>
    \/ mqttObj /\ MqttPublishStatus /\ mqCall'.arg \in CallerStatuses
           /\ UNCHANGED <<tomlVars, buildVars, radioAddr, netLastError, netSocketPool,
                          netCall, bootPc, ssidSet, brokerSet, ntpPresent, mqttLibPresent,
                          netObj, mqttObj, webObj, webPool, factoryLog, sensorVars,
                          loopVars, httpVars, apiVars, rspVars, linkVars, loadVars,
                          statusVars, formVars, startVars, pollVars, cutVars, roundVars>>

SpecStatus == InitStatus /\ [][NextStatus]_vars

(***************************************************************************)
(* SpecForm: POST / with every form body of up to MaxFormLen characters on *)
(* an absent, an empty and two written settings files.                     *)
(***************************************************************************)
InitForm ==
    /\ InitTomlVars
    /\ wifiPresent = TRUE
    /\ socketpoolPresent = TRUE
    /\ InitNetVars
    /\ InitBootVars
    /\ InitSensorVars
    /\ InitLoopVars
    /\ InitHttpVars
    /\ InitApiVars
    /\ InitMqttVars
    /\ InitRspVars
    /\ poolStale = FALSE
    /\ InitLoadVars
    /\ InitStatusVars
    /\ formPc = "input"
    /\ formBody \in FormBodies
    /\ formFile \in FormFiles
    /\ formBefore = formFile
    /\ formOut = NoFormOut
    /\ InitStartVars
    /\ InitPollVars
    /\ InitCutVars
    /\ InitRoundVars

NextForm ==
    FormPost /\ UNCHANGED <<tomlVars, buildVars, netVars, bootVars, sensorVars, loopVars,
                            httpVars, apiVars, mqttVars, rspVars, linkVars, loadVars,
                            statusVars, startVars, pollVars, cutVars, roundVars>>

SpecForm == InitForm /\ [][NextForm]_vars

(***************************************************************************)
(* SpecPoll: one connection from accept to the return of poll(), for every *)
(* method, a range of declared lengths and every pacing of the peer.       *)
(***************************************************************************)
ContentLengths == {-1, 0, 1, 3, MaxContentLength}

InitPoll ==
    /\ InitTomlVars
    /\ wifiPresent = TRUE
    /\ socketpoolPresent = TRUE
    /\ InitNetVars
    /\ InitBootVars
    /\ InitSensorVars
    /\ InitLoopVars
    /\ InitHttpVars
    /\ InitApiVars
    /\ InitMqttVars
    /\ InitRspVars
    /\ poolStale = FALSE
    /\ InitLoadVars
    /\ InitStatusVars
    /\ InitFormVars
    /\ InitStartVars
    /\ pollPc = "accept"
    /\ pollReq \in [method : {"GET", "POST", "PUT"}, content_length : ContentLengths]
    /\ pollHeaderEnd = FALSE
    /\ pollToRead = 0
    /\ pollTries = 0
    /\ pollRecvs = 0
    /\ pollAsk = NoAsk
    /\ pollStages = <<>>
    /\ pollCloses = 0
    /\ InitCutVars
    /\ InitRoundVars

OtherThanPoll ==
    <<tomlVars, buildVars, netVars, bootVars, sensorVars, loopVars, httpVars, apiVars,
      mqttVars, rspVars, linkVars, loadVars, statusVars, formVars, startVars, cutVars,
      roundVars>>

NextPoll ==
    \/ PollAccepted /\ UNCHANGED OtherThanPoll
    \/ PollRecvHeader /\ UNCHANGED OtherThanPoll
    \/ PollParse /\ UNCHANGED OtherThanPoll
    \/ PollRecvBody /\ UNCHANGED OtherThanPoll
    \/ PollDispatch /\ UNCHANGED OtherThanPoll
    \/ PollWrite /\ UNCHANGED OtherThanPoll
    \/ PollFinally /\ UNCHANGED OtherThanPoll

SpecPoll == InitPoll /\ [][NextPoll]_vars

(***************************************************************************)
(* SpecCut: one POST / or PUT /api/config with the right content type, for *)
(* a handful of bodies and settings files, the body arriving whole, in     *)
(* pieces, or only in part.                                                *)
(***************************************************************************)
CutFormBodies ==
    {<<"k", "=", "a", "b">>,
     <<"k", "=", "a", "&", "w", "=", "2">>,
     <<"w", "=", "1", "2">>}

CutJsonBodies ==
    {<<"{", QUOTE, "k", QUOTE, ":", "1", "}">>,
     <<"{", QUOTE, "k", QUOTE, ":", "1", "2", "}">>,
     <<"{", QUOTE, "k", QUOTE, ":", "1", "}", NEWLINE>>,
     <<"1", "2">>}

CutRequests ==
    {[method |-> "POST", body |-> b] : b \in CutFormBodies}
    \cup {[method |-> "PUT", body |-> b] : b \in CutJsonBodies}

InitCut ==
    /\ InitTomlVars
    /\ wifiPresent = TRUE
    /\ socketpoolPresent = TRUE
    /\ InitNetVars
    /\ InitBootVars
    /\ InitSensorVars
    /\ InitLoopVars
    /\ InitHttpVars
    /\ InitApiVars
    /\ InitMqttVars
    /\ InitRspVars
    /\ poolStale = FALSE
    /\ InitLoadVars
    /\ InitStatusVars
    /\ InitFormVars
    /\ InitStartVars
    /\ InitPollVars
    /\ cutPc = "headers"
    /\ cutReq \in CutRequests
    /\ cutHeaderEnd = FALSE
    /\ cutGot = 0
    /\ cutFile \in FormFiles
    /\ cutBefore = cutFile
    /\ cutOut = NoCutOut
    /\ InitRoundVars

OtherThanCut ==
    <<tomlVars, buildVars, netVars, bootVars, sensorVars, loopVars, httpVars, apiVars,
      mqttVars, rspVars, linkVars, loadVars, statusVars, formVars, startVars, pollVars,
      roundVars>>

NextCut ==
    \/ CutRecvHeader /\ UNCHANGED OtherThanCut
    \/ CutRecvBody /\ UNCHANGED OtherThanCut
    \/ CutDispatch /\ UNCHANGED OtherThanCut

SpecCut == InitCut /\ [][NextCut]_vars

(***************************************************************************)
(* SpecRound: the form of GET / sent back unchanged, for settings files of *)
(* one and two keys with string, integer, float and boolean values.        *)
(***************************************************************************)
RoundValues ==
    {StrV(<<>>), StrV(<<"a">>), StrV(<<"a", " ", "b">>), StrV(<<"a", "&", "b">>),
     StrV(<<"7">>), IntV(7), IntV(-1), BoolV(TRUE), BoolV(FALSE), FloatV(25, 1)}

RoundDocs ==
    {<<<<k, v>>>> : k \in TomlKeys, v \in RoundValues}
    \cup {d \in {<<<<k1, v1>>, <<k2, v2>>>> :
                    k1 \in TomlKeys, k2 \in TomlKeys,
                    v1 \in RoundValues, v2 \in RoundValues} : d[1][1] # d[2][1]}

RoundFiles ==
    {[exists |-> FALSE, content |-> <<>>]}
    \cup {[exists |-> TRUE, content |-> dump_toml(d)] : d \in RoundDocs}

InitRound ==
    /\ InitTomlVars
    /\ wifiPresent = TRUE
    /\ socketpoolPresent = TRUE
    /\ InitNetVars
    /\ InitBootVars
    /\ InitSensorVars
    /\ InitLoopVars
    /\ InitHttpVars
    /\ InitApiVars
    /\ InitMqttVars
    /\ InitRspVars
    /\ poolStale = FALSE
    /\ InitLoadVars
    /\ InitStatusVars
    /\ InitFormVars
    /\ InitStartVars
    /\ InitPollVars
    /\ InitCutVars
    /\ rtPc = "get"
    /\ rtFile \in RoundFiles
    /\ rtBefore = rtFile
    /\ rtBody = <<>>
    /\ rtOut = NoFormOut

OtherThanRound ==
    <<tomlVars, buildVars, netVars, bootVars, sensorVars, loopVars, httpVars, apiVars,
      mqttVars, rspVars, linkVars, loadVars, statusVars, formVars, startVars, pollVars,
      cutVars>>

NextRound ==
    \/ RoundGet /\ UNCHANGED OtherThanRound
    \/ RoundPost /\ UNCHANGED OtherThanRound

SpecRound == InitRound /\ [][NextRound]_vars

(***************************************************************************)
(* Claims                                                                  *)
(***************************************************************************)
FirstSuccess(outcomes) ==
    IF \E i \in 1..max_retries : outcomes[i]
    THEN CHOOSE i \in 1..max_retries :
             outcomes[i] /\ \A j \in 1..(i - 1) : ~outcomes[j]
    ELSE 0

Called(op) == \E i \in 1..Len(tickLog) : tickLog[i][1] = op

Failed(op) ==
    \E i \in 1..Len(tickLog) : tickLog[i][1] = op /\ tickLog[i][2] \in {"raise", "none"}

PlaceOf(op) == CHOOSE i \in 1..Len(tickLog) : tickLog[i][1] = op

TickServiced ==
    /\ loopMqtt => Called("mqtt_loop")
    /\ loopWeb => Called("web_poll")

TickOps == {"mqtt_loop", "web_poll", "sensor_read", "telemetry"}

\* C3: whatever mqtt.loop, web.poll, the sensor read and the telemetry publish
\* raise, the loop goes on: a new tick starts again and again (until a persisted
\* configuration resets the device), and after a tick in which an operation
\* failed the next tick services the message bus and the HTTP server again.
C3_LoopNeverTerminates ==
    /\ []<>(loopPc = "mqtt_loop" \/ loopPc = "reset")
    /\ \A op \in TickOps : \A p \in {0, 1} :
           (Failed(op) /\ tickParity = p)
               ~> (loopPc = "reset"
                   \/ (tickParity = 1 - p /\ loopPc = "interval" /\ TickServiced))

\* C3 witness: a tick in which mqtt.loop raised and the sensor read raised
\* after web.poll was still called
C3_FailuresInOneTick ==
    /\ loopPc = "except"
    /\ Failed("mqtt_loop")
    /\ Called("web_poll")
    /\ Failed("sensor_read")
    /\ tickParity = 1

\* C4: within a tick mqtt.loop is called before web.poll, and the sensor read
\* starts only after both have returned or raised.
C4_BusBeforeSensor ==
    /\ (Called("web_poll") /\ loopMqtt) =>
           (Called("mqtt_loop") /\ PlaceOf("mqtt_loop") < PlaceOf("web_poll"))
    /\ loopPc \in {"read", "publish", "sleep", "except"} => TickServiced
    /\ Called("sensor_read") =>
           /\ TickServiced
           /\ loopMqtt => PlaceOf("mqtt_loop") < PlaceOf("sensor_read")
           /\ loopWeb => PlaceOf("web_poll") < PlaceOf("sensor_read")

\* C4 witness: a sensor read in a tick in which mqtt.loop and web.poll both raised
C4_ReadAfterFailedServicing ==
    /\ Called("sensor_read")
    /\ Failed("mqtt_loop")
    /\ Failed("web_poll")

\* C5: NetworkManager.connect() makes no link attempt and returns true when
\* already connected; otherwise it stops at the first successful attempt,
\* returning true with the last error cleared, makes at most 5 attempts, and
\* when all 5 fail returns false with last_error the failure of the 5th
\* attempt, is_connected() false and get_socket_pool() raising not-connected.
C5_ConnectContract ==
    (netCall.op = "connect" /\ wifiPresent) =>
        /\ netCall.connectedBefore =>
               (netCall.attempts = 0 /\ netCall.ret = "true")
        /\ ~netCall.connectedBefore =>
               /\ netCall.attempts <= 5
               /\ FirstSuccess(netCall.outcomes) # 0 =>
                      /\ netCall.ret = "true"
                      /\ netCall.attempts = FirstSuccess(netCall.outcomes)
                      /\ netLastError = 0
                      /\ is_connected(radioAddr)
               /\ FirstSuccess(netCall.outcomes) = 0 =>
                      /\ netCall.ret = "false"
                      /\ netCall.attempts = 5
                      /\ netLastError = 5
                      /\ ~is_connected(radioAddr)
                      /\ get_socket_pool(<<radioAddr, netSocketPool, poolsMade>>).ret
                             = "raise_not_connected"

\* C5 witness: a connect() that exhausted its 5 attempts after a link loss,
\* the factory of the earlier connection still cached
C5_ExhaustedAfterLoss ==
    /\ netCall.op = "connect"
    /\ netCall.ret = "false"
    /\ netCall.attempts = 5
    /\ netSocketPool # 0

\* C6: a transport factory is constructed for, or handed to, a dependent
\* component (NTP client, telemetry publisher, HTTP server) only while the
\* link is connected.
C6_FactoryOnlyWhileConnected == \A ev \in factoryLog : ev.connected

\* C7: two successive successful sensor reads are at least min_interval apart,
\* and a read_data() call made too early waits the residual time and then
\* reads (at least one attempt): it is not rejected.
C7_MinimumInterval ==
    /\ (prevReadAt # -1 /\ lastReadAt # -1) => lastReadAt - prevReadAt >= min_interval
    /\ (sensorCall.op = "read_data" /\ sensorReady /\ sensorCall.elapsed < min_interval) =>
           /\ sensorCall.waited = min_interval - sensorCall.elapsed
           /\ sensorCall.attempts >= 1
           /\ sensorCall.ret \in {"data", "none"}
           /\ now >= sensorCall.startedAt + sensorCall.waited

\* C7 witness: a second successful read, from a call made too early
C7_EarlyCallWaited ==
    /\ prevReadAt # -1
    /\ sensorCall.op = "read_data"
    /\ sensorCall.ret = "data"
    /\ sensorCall.elapsed < min_interval
    /\ sensorCall.waited > 0

\* C10: serialize(parse(serialize(d))) = serialize(d) for every flat settings
\* document d of string, integer, float and boolean values.
C10_RoundTripLaw == tomlPc = "done" => tomlSecond = tomlFirst

InLog(e) == \E i \in DOMAIN connLog : connLog[i] = e

LastOfLog(n) == SubSeq(connLog, Len(connLog) - n + 1, Len(connLog))

IsPut == Route(req) = "api_put_config"

IsPost == Route(req) = "post_root"

\* C1 as stated: when the device restarts after a PUT /api/config, the 202 was
\* written to the client in full, then the connection was closed, then the
\* restart was triggered.
C1_ResponseWrittenBeforeReset ==
    (httpPc = "reset" /\ IsPut) => LastOfLog(3) = <<"send_ok", "close", "reset">>

\* C1 as the code has it: a PUT /api/config whose write went through is answered
\* 202; when the device restarts after it, the send loop ran on the 202 (to the
\* end, or until send raised or returned 0), then close() was called, then the
\* restart was triggered from poll()'s finally block, never from the handler.
C1_ResponseAttemptedBeforeReset ==
    /\ (IsPut /\ InLog("write_ok") /\ httpPc \in {"send", "close", "reset"})
           => resp = http_response(202, "json", "accepted", TRUE)
    /\ (httpPc = "reset" /\ IsPut)
           => /\ connLog \in {<<"accept", "recv", "dispatch", "open", "write_ok",
                                sent, "close", "reset">> : sent \in {"send_ok", "send_fail"}}
              /\ file = DocFile(saveDoc)

\* a restart after a PUT /api/config whose 202 reached the client
C1_ResetAfterAcceptedPut ==
    httpPc = "reset" /\ IsPut /\ InLog("send_ok") /\ resp.code = 202

\* C2: the device resets only after a settings write of the same request went
\* through (no rejected request, no failed open or write), the pending-reset
\* flag is raised only by such a PUT, and it is down whenever poll() has returned.
C2_ResetOnlyAfterWrite ==
    /\ httpPc = "reset"
           => /\ Saves(req)
              /\ InLog("write_ok")
              /\ ~InLog("open_fail") /\ ~InLog("write_fail")
              /\ file = DocFile(saveDoc)
              /\ microPresent
    /\ pendingReset => (IsPut /\ InLog("write_ok") /\ httpPc \in {"send", "close"})
    /\ httpPc = "idle" => ~pendingReset

\* a restart out of save_settings, after the write of a POST /
C2_ResetAfterPost ==
    httpPc = "reset" /\ IsPost /\ LastOfLog(2) = <<"write_ok", "reset">>

\* C8: after a crash during a save the settings file holds the complete previous
\* document or the complete new one.
C8_AtomicSave ==
    httpPc = "crashed" => (file = fileBefore \/ file = DocFile(saveDoc))

\* C9: when the write fails on a read-only store, the file is unchanged, no
\* restart is triggered and the request is answered with an error response.
C9_ReadOnlyReported ==
    (InLog("open_fail") /\ httpPc \in {"send", "close"})
        => /\ file = fileBefore
           /\ ~pendingReset
           /\ resp.kind # "none" /\ resp.code >= 400

\* C11: GET, PUT with an update on a strict subset of the keys (answered 202),
\* GET: the second document is the first with exactly the submitted keys
\* replaced; the same PUT again leaves the document as it is.
C11_PartialUpdateIdempotent ==
    apiPc = "done"
        => /\ apiCodes = <<202, 202>>
           /\ apiGets[2] = DictUpdate(apiGets[1], apiUpd)
           /\ apiGets[3] = apiGets[2]

BothTopicsResolve == temperature_topic # "none" /\ humidity_topic # "none"

PublishedReading == mqCall.op = "publish_telemetry"

\* C12 as stated: publish_telemetry emits exactly two messages whenever both
\* topics resolve, fails with the not-configured error and emits nothing when
\* one does not, and never returns normally after one message only.
C12_AlwaysTwoMessages ==
    PublishedReading
        => /\ BothTopicsResolve => Len(mqCall.emitted) = 2
           /\ ~BothTopicsResolve
                  => (mqCall.ret = "raise_not_configured" /\ mqCall.emitted = <<>>)
           /\ Len(mqCall.emitted) = 1 => mqCall.ret # "ok"

\* C12 as the code has it: publish_telemetry returns normally only with both
\* topics resolved and exactly the temperature and the humidity message emitted,
\* in that order; with a topic unresolved it raises the not-configured error and
\* emits nothing; with both resolved it may still raise, having emitted nothing
\* (no client, non-numeric reading, first publish failed) or the temperature
\* message only (second publish failed, error recorded).
C12_TwoMessagesOrRaise ==
    PublishedReading
        => /\ mqCall.ret = "ok"
                  => /\ BothTopicsResolve
                     /\ mqCall.emitted = <<Message("temperature", FALSE),
                                           Message("humidity", FALSE)>>
           /\ ~BothTopicsResolve
                  => (mqCall.ret = "raise_not_configured" /\ mqCall.emitted = <<>>)
           /\ Len(mqCall.emitted) < 2 => mqCall.ret # "ok"
           /\ (BothTopicsResolve /\ mqCall.ret # "ok")
                  => /\ mqCall.ret \in {"raise_no_client", "raise_data", "raise_publish"}
                     /\ Len(mqCall.emitted) <= 1
                     /\ Len(mqCall.emitted) = 1
                            => (mqCall.ret = "raise_publish" /\ mqLastError = "publish")

\* the humidity publish failed after the temperature message went out
C12_SecondPublishFailed ==
    /\ PublishedReading
    /\ mqCall.ret = "raise_publish"
    /\ mqCall.emitted = <<Message("temperature", FALSE)>>

\* C13: the cached status is the status of the latest retained publish that
\* went through ("offline" before any); publish_status without a status topic
\* emits nothing and changes nothing; a failed publish leaves the cached status
\* as it was and records the error.
C13_CachedStatus ==
    /\ [](/\ mqStatus = mqPublished
          /\ mqCall.op = "publish_status"
                => /\ ~mqCfg.status => (mqCall.ret = "ok" /\ mqCall.emitted = <<>>)
                   /\ mqCall.ret = "raise_publish"
                          => (mqCall.emitted = <<>> /\ mqLastError = "publish")
                   /\ (mqCall.ret = "ok" /\ mqCfg.status)
                          => (mqCall.emitted = <<Message("status", TRUE)>>
                              /\ mqStatus = mqCall.arg))
    /\ [][/\ (mqCall'.op = "publish_status" /\ ~mqCfg.status)
                => UNCHANGED <<mqStatus, mqLastError, mqPublished, mqClient, mqWill>>
          /\ (mqCall'.op = "publish_status" /\ mqCall'.ret = "raise_publish")
                => UNCHANGED mqStatus]_vars

\* a status publish that failed after an earlier one went through
C13_FailedAfterPublished ==
    /\ mqCall.op = "publish_status"
    /\ mqCall.ret = "raise_publish"
    /\ mqCall.arg = "error"
    /\ mqStatus = "ok"

OfflineWill == [topic |-> "status", status |-> "offline", retain |-> TRUE]

NoFactoryAvailable == mqttPool = 0 /\ ~(wifiPresent /\ socketpoolPresent)

HeaderValue(response, name) ==
    IF \E i \in DOMAIN response.headers : response.headers[i].name = name
    THEN LET i == CHOOSE j \in DOMAIN response.headers :
                      /\ response.headers[j].name = name
                      /\ \A k \in 1..(j - 1) : response.headers[k].name # name
         IN response.headers[i].value
    ELSE <<>>

HeaderCount(response, name) ==
    Cardinality({i \in DOMAIN response.headers : response.headers[i].name = name})

\* C15: every response carries one Content-Length header, whose value is the
\* number of bytes of the body, and the header Connection: close.
C15_ContentLengthAndClose ==
    rspPc = "done"
        => /\ HeaderCount(rspOut, "Content-Length") = 1
           /\ AllDigits(HeaderValue(rspOut, "Content-Length"))
           /\ NatVal(HeaderValue(rspOut, "Content-Length")) = Len(rspOut.body)
           /\ HeaderCount(rspOut, "Connection") = 1
           /\ HeaderValue(rspOut, "Connection") = <<"close">>

\* a 303 whose body of four characters takes twelve bytes
C15_MultiByteBody ==
    /\ rspPc = "done"
    /\ rspIn.code = 303
    /\ Len(rspIn.body) = 4
    /\ HeaderValue(rspOut, "Content-Length") = <<"1", "2">>

\* C16: on every accepted connection poll() has a response and runs the send loop
\* on it before the connection is closed or the device restarts.
C16_ResponseBeforeClose ==
    httpPc \in {"close", "reset"}
        => /\ resp.kind # "none"
           /\ InLog("send_ok") \/ InLog("send_fail")

\* the first attempt at which the sensor delivers, 0 if it never does
FirstDelivery(outcomes) ==
    IF \E i \in 1..read_attempts : outcomes[i]
    THEN CHOOSE i \in 1..read_attempts : outcomes[i] /\ \A j \in 1..(i - 1) : ~outcomes[j]
    ELSE 0

\* C17: read_data() on an initialized sensor makes at most 3 attempts; it
\* returns the reading at the first attempt that delivers, with last_error
\* cleared; after 3 failed attempts it returns None, with last_error the third
\* failure; it does not raise.
C17_BoundedRetries ==
    (sensorCall.op = "read_data" /\ sensorReady)
        => /\ sensorCall.ret \in {"data", "none"}
           /\ sensorCall.attempts \in 1..3
           /\ sensorCall.ret = "data"
                  => /\ FirstDelivery(sensorCall.outcomes) = sensorCall.attempts
                     /\ sensorLastError = 0
           /\ sensorCall.ret = "none"
                  => /\ FirstDelivery(sensorCall.outcomes) = 0
                     /\ sensorCall.attempts = 3
                     /\ sensorLastError = 3

\* a reading at the third attempt, after an earlier call had exhausted its attempts
C17_ThirdAttemptDelivers ==
    /\ sensorCall.op = "read_data"
    /\ sensorCall.ret = "data"
    /\ sensorCall.attempts = 3
    /\ sensorLastError = 0
    /\ sensorCall.startedAt > 0

\* C18: read_data() on a sensor that was never initialized raises at once (no
\* wait, no attempt), last_error and the timestamp stay as they were, and the
\* main loop goes on: the next tick services the bus and the HTTP server again.
C18_UninitializedSensorRaises ==
    /\ [](~sensorReady
            => /\ \A i \in 1..Len(tickLog) :
                      tickLog[i][1] = "sensor_read" => tickLog[i][2] = "raise"
               /\ \A outcomes \in [1..read_attempts -> BOOLEAN], jitter \in 0..MaxJitter :
                      LET r == read_data(outcomes, jitter, now, sensorLastError,
                                         sensorLastRead)
                      IN /\ r.ret = "raise"
                         /\ r.attempts = 0
                         /\ r.t = now
                         /\ r.err = sensorLastError
                         /\ r.ts = sensorLastRead)
    /\ [][~sensorReady => UNCHANGED <<sensorLastError, sensorLastRead>>]_vars
    /\ \A p \in {0, 1} :
           (~sensorReady /\ Failed("sensor_read") /\ tickParity = p)
               ~> (loopPc = "reset"
                   \/ (tickParity = 1 - p /\ loopPc = "interval" /\ TickServiced))

\* the read of an uninitialized sensor raising in the second tick
C18_RaisedAgainNextTick ==
    /\ ~sensorReady
    /\ tickParity = 1
    /\ Failed("sensor_read")
    /\ loopPc = "except"

\* C19: NetworkManager holds at most one factory; within one connection
\* get_socket_pool() returns the same instance again; once the link was lost
\* and is up again, the factory returned is not the one constructed under the
\* earlier connection.
C19_FactoryPerConnection ==
    /\ netSocketPool <= poolsMade
    /\ (netCall.op = "get_socket_pool" /\ netCall.ret = "pool")
           => /\ netCall.pool = netSocketPool
              /\ netCall.pool # 0
              /\ ~poolStale

\* the value bound to a key in an ordered mapping; "-" when the key is missing
Lookup(d, key) ==
    IF \E i \in 1..Len(d) : d[i][1] = key
    THEN (CHOOSE i \in 1..Len(d) : d[i][1] = key)
    ELSE 0

ValueOf(d, key) == IF Lookup(d, key) = 0 THEN Absent ELSE d[Lookup(d, key)][2]

HasStrayLine(content) ==
    \E i \in 1..Len(SplitLines(content)) : IsStrayLine(SplitLines(content)[i])

\* C20: load_settings() raises the not-found error when the settings file is
\* absent or empty, and the malformed error when a non-comment line carries no
\* assignment; when it raised, startup goes on with the defaults wifi_ssid "",
\* broker_port 1883, sensor_type "DHT11", reading_interval_seconds 2.
C20_LoadFailureContract ==
    loadPc = "loaded" /\ loadCall.ret # "none"
        => /\ (~cfgFile.exists \/ cfgFile.content = <<>>)
                  => loadCall.ret = "FileNotFoundError"
           /\ (cfgFile.exists /\ HasStrayLine(cfgFile.content))
                  => loadCall.ret \in {"ValueError", "TOMLDecodeError"}
           /\ loadCall.ret # "dict"
                  => /\ ValueOf(bootSettings, <<"w", "i", "f", "i", "_", "s", "s", "i", "d">>) = StrV(<<>>)
                     /\ ValueOf(bootSettings, <<"b", "r", "o", "k", "e", "r", "_", "p", "o", "r", "t">>) = IntV(1883)
                     /\ ValueOf(bootSettings, <<"s", "e", "n", "s", "o", "r", "_", "t", "y", "p", "e">>)
                            = StrV(<<"D", "H", "T", "1", "1">>)
                     /\ ValueOf(bootSettings,
                                <<"r", "e", "a", "d", "i", "n", "g", "_", "i", "n", "t", "e", "r", "v", "a", "l", "_", "s", "e", "c", "o", "n", "d", "s">>)
                            = IntV(2)

\* C21: every GET /api/status is answered 200 with a JSON object of device_id,
\* timestamp, status and ip; status is the publisher's cached status at that
\* moment, "ok" without a publisher; ip is the session's address, "0.0.0.0"
\* while the session is disconnected.
C21_StatusDocument ==
    [][stResp' # stResp
          => /\ stResp'.code = 200
             /\ stResp'.ctype = "application/json"
             /\ stResp'.device_id # ""
             /\ Len(stResp'.timestamp) = 20
             /\ stResp'.status = (IF mqttObj THEN mqStatus ELSE "ok")
             /\ stResp'.ip = (IF wifiPresent /\ radioAddr THEN IpText ELSE "0.0.0.0")]_vars

\* a status report given with no publisher and the link down
C21_ReportedWhileDown ==
    /\ stResp.code = 200
    /\ ~mqttObj
    /\ stResp.status = "ok"
    /\ stResp.ip = "0.0.0.0"
    /\ ~radioAddr

\* C22: a PUT /api/config whose body is not JSON, is no JSON object or has no
\* config fields is answered 400 with the {error:{code,message}} envelope; and
\* whenever a PUT is answered with a 4xx or 5xx status the settings file is as
\* it was when the request came in, no restart is pending or triggered, and no
\* exception left the handler.
C22_RejectedPutChangesNothing ==
    (IsPut /\ httpPc \in {"send", "close", "reset"})
        => /\ resp # NoResponse
           /\ (req.ctype = "application/json" /\ req.body # "updates")
                  => /\ resp.code = 400
                     /\ resp.kind = "json"
                     /\ resp.tag \in {"invalid_json", "invalid_request"}
           /\ resp.code >= 400
                  => /\ file = fileBefore
                     /\ ~pendingReset
                     /\ httpPc # "reset"

UnderApi(path) == path \in {"/api/", "/api/config", "/api/status", "/api/other"}

JsonError(code, tag) ==
    resp.code = code /\ resp.kind = "json" /\ resp.tag = tag /\ resp.cors

TextError(code) == resp.code = code /\ resp.kind = "text" /\ ~resp.cors

KeysOf(d) == {d[i][1] : i \in 1..Len(d)}

\* C24: a form POST with at least one submitted field on a readable settings
\* file leaves a file that loads as the loaded document with exactly the
\* decoded fields replaced or added, every other key as it was; a payload
\* without fields is answered 400 and nothing is written.
C24_FormMergePersisted ==
    formPc = "done"
        => /\ formOut.updates = <<>>
                  => /\ formOut.ret = "400"
                     /\ ~formOut.wrote
                     /\ formFile = formBefore
           /\ (formOut.updates # <<>> /\ formBefore.exists)
                  => LET old == parse_minimal_toml(formBefore.content)
                         new == parse_minimal_toml(formFile.content)
                     IN /\ formOut.wrote
                        /\ KeysOf(new) = KeysOf(old) \cup KeysOf(formOut.updates)
                        /\ \A k \in KeysOf(formOut.updates) :
                               ValueOf(new, k) = ValueOf(formOut.updates, k)
                        /\ \A k \in KeysOf(old) \ KeysOf(formOut.updates) :
                               ValueOf(new, k) = ValueOf(old, k)

FailureOps == {"mqtt_loop", "sensor_read", "telemetry"}

\* C25: with a publisher present, in every tick in which mqtt.loop raised, the
\* sensor read returned no data or raised, or the telemetry publish raised, a
\* publish of the "error" status was attempted after that failure, before the
\* tick ended.
C25_ErrorStatusAttempted ==
    (loopMqtt /\ loopPc \in {"sleep", "except"})
        => \A i \in 1..Len(tickLog) :
               (tickLog[i][1] \in FailureOps /\ tickLog[i][2] \in {"raise", "none"})
                   => \E j \in (i + 1)..Len(tickLog) : tickLog[j][1] = "status_error"

\* C26: startup runs its steps in the order settings, connectivity, sensor,
\* publisher, HTTP server, and whichever of them fails (an unresolvable sensor
\* pin and a settings value of an unexpected type included) startup goes on
\* without that subsystem and enters the main loop: no exception ends it.
C26_StartupReachesLoop ==
    /\ bootPc # "crashed"
    /\ bootPc = "loop"
           => /\ bootSensor \in {"ready", "disabled"}
              /\ (~bootCfg.pinResolves \/ ~bootCfg.typeIsStr) => bootSensor = "disabled"

\* C27: GET /status is answered 200 with a JSON object (device_id, timestamp,
\* status, ip), as the status handler builds it.
C27_StatusRoute ==
    (httpPc \in {"send", "close"} /\ req.method = "GET" /\ req.path = "/status")
        => /\ resp.code = 200
           /\ resp.kind = "json"
           /\ resp.tag = "status"

\* C28: GET /config is answered 200 with a JSON object; POST /config with a
\* JSON object is answered 200 with a JSON object, the settings are updated by
\* it and the device does not restart.
C28_ConfigRoute ==
    (httpPc \in {"send", "close", "reset"} /\ req.path = "/config")
        => /\ req.method = "GET" => (resp.code = 200 /\ resp.kind = "json")
           /\ (req.method = "POST" /\ req.ctype = "application/json"
                   /\ req.body = "updates")
                  => /\ resp.code = 200
                     /\ resp.kind = "json"
                     /\ file = DocFile(Merge(fileBefore.doc, req.upd))
                     /\ httpPc # "reset"
                     /\ ~pendingReset

StageRank(name) == CHOOSE i \in 1..Len(StageNames) : StageNames[i] = name

InStages(name) == \E i \in 1..Len(pollStages) : pollStages[i] = name

\* C29: a connection goes through Accept, ReadHeaders, ReadBody (optional),
\* Dispatch, WriteResponse, Close in this order; ReadBody is entered only with
\* the header terminator found, method POST or PUT and Content-Length > 0; no
\* body recv asks for more than the declared bytes still missing; and when
\* poll() is over the connection was closed exactly once, whatever failed.
C29_StagesAndSingleClose ==
    /\ \A i, j \in 1..Len(pollStages) :
           i < j => StageRank(pollStages[i]) < StageRank(pollStages[j])
    /\ InStages("ReadBody")
           => /\ pollHeaderEnd
              /\ pollReq.method \in {"POST", "PUT"}
              /\ pollReq.content_length > 0
    /\ pollAsk.size <= pollAsk.remaining
    /\ pollAsk.remaining <= Max(0, pollReq.content_length)
    /\ pollCloses <= 1
    /\ pollPc \in {"returned", "reset"}
           => /\ pollCloses = 1
              /\ InStages("Dispatch")
              /\ pollStages[Len(pollStages)] = "Close"

\* C30: the receive attempts poll() makes on one connection, for header and
\* body together, stay within a fixed budget whatever Content-Length the peer
\* declares and however it paces its bytes: here twice the 50 attempts the
\* header loop allows itself.
C30_ReceiveAttemptsCapped ==
    pollRecvs <= 2 * header_attempts

Occurs(op) == \E i \in 1..Len(tickLog) : tickLog[i][1] = op

\* C31: in every tick in which the interval has elapsed, the sensor read
\* returned data and a publisher is present whose temperature and humidity
\* topics both resolve (from the base topic or from explicit topics), the
\* reading was handed to publish_telemetry before the tick ended, after an
\* attempt to publish the "ok" status.
C31_ReadingHandedToPublisher ==
    (/\ loopPc = "sleep"
     /\ \E i \in 1..Len(tickLog) : tickLog[i] = <<"sensor_read", "data">>
     /\ loopMqtt
     /\ \A q \in Quantities : quantity_topic(q, topicSet, quantityTopics))
        => \E i, j \in 1..Len(tickLog) :
               /\ i < j
               /\ tickLog[i][1] = "status_ok"
               /\ tickLog[j][1] = "telemetry"

\* C33: with a publisher that connected to the broker at startup, no answer
\* of GET /api/status carries the status "offline", whether the status topic
\* is set or empty.
C33_ConnectedNeverOffline ==
    (stWeb.mqtt /\ stResp.code = 200) => stResp.status # "offline"

\* C32: a POST / or PUT /api/config changes the settings file, or restarts
\* the device, only when the whole request arrived: the header terminator was
\* found and as many characters of the body as Content-Length declares were
\* read.
C32_OnlyCompleteRequestsPersist ==
    (cutPc \in {"done", "reset"} /\ (cutFile # cutBefore \/ cutOut.reset))
        => (cutHeaderEnd /\ cutGot = Len(cutReq.body))

\* C34: after the form of GET / was submitted back unchanged through POST /,
\* the settings file loads as the document it held before: the same keys, each
\* with the value and the type (string, integer, float, boolean) it had.
C34_FormRoundTripKeepsDocument ==
    rtPc = "done"
        => /\ rtFile.exists = rtBefore.exists
           /\ parse_minimal_toml(rtFile.content) = parse_minimal_toml(rtBefore.content)

====
